---- MODULE Spec2Model ----
(***************************************************************************)
(* A model of the msgraph provider's JSON reconciliation helpers            *)
(* (internal/utils: MergeObject, UpdateObject, DiffObject, IsEmptyObject,   *)
(* ResponseErrorWasNotFound) and of the create / update / read / delete /   *)
(* import handlers of msgraph_resource and msgraph_update_resource          *)
(* (internal/services), with the consistency wait that follows a mutation.  *)
(***************************************************************************)
EXTENDS Integers, Sequences, FiniteSets, TLC

VARIABLES
    fin,      \* inputs of the function under check: [fn, old, new, option]
    fout,     \* [done, res]: whether the function has been applied, and its result
    cfg,      \* the resource's configuration: [kind, url, ignoreMissing]
    tracked,  \* the tracked state: [present, body, id, output]
    moveFlag, \* the private state key "move_state": "" when unset
    op,       \* the handler that is running, "none" between handlers
    pc,       \* the position inside the running handler
    plan,     \* the planned model of the running handler: [body, method]
    prior,    \* the tracked state the running handler was given
    model,    \* the handler's working copy: [id, output]
    reqBody,  \* the request body the handler has built so far
    ctxDone,  \* the handler's context deadline has fired
    polls,    \* number of unsatisfied existence checks of the running poll
    waitErr,  \* the error the consistency wait of the running handler returned
    log,      \* the remote calls and state writes of the running handler, in order
    diag      \* the summary of the error the handler reported, "" when none

vars == <<fin, fout, cfg, tracked, moveFlag, op, pc, plan, prior, model,
          reqBody, ctxDone, polls, waitErr, log, diag>>

helperVars == <<fin, fout>>
handlerVars == <<cfg, tracked, moveFlag, op, pc, plan, prior, model,
                 reqBody, ctxDone, polls, waitErr, log, diag>>

-----------------------------------------------------------------------------
(* JSON values as Go's encoding/json decodes them into interface{}:         *)
(* nil, string, float64, bool, map[string]interface{}, []interface{}.      *)
(* A string is the sequence of its characters.                              *)

Nil == [k |-> "null", v |-> ""]
Str(s) == [k |-> "str", v |-> s]
\* a number as encoding/json decodes it into an interface{}: a float64
Num(n) == [k |-> "num", v |-> n]
\* a number held as a Go int, as a caller that builds the value in code has it
GoInt(n) == [k |-> "int", v |-> n]
Bool(b) == [k |-> "bool", v |-> b]
Obj(f) == [k |-> "obj", v |-> f]
Arr(s) == [k |-> "arr", v |-> s]

IsMap(x) == x.k = "obj"
IsSlice(x) == x.k = "arr"
IsString(x) == x.k = "str"

EmptyMap == Obj(<<>>)

\* the characters of the object keys the model uses
KeyText(key) ==
    CASE key = "@odata.type" -> <<"@", "o", "d", "a", "t", "a", ".", "t", "y", "p", "e">>
      [] key = "@odata" -> <<"@", "o", "d", "a", "t", "a">>
      [] key = "a" -> <<"a">>
      [] key = "b" -> <<"b">>
      [] key = "@odata.id" -> <<"@", "o", "d", "a", "t", "a", ".", "i", "d">>
      [] key = "id" -> <<"i", "d">>
      [] key = "name" -> <<"n", "a", "m", "e">>

ODataPrefix == <<"@", "o", "d", "a", "t", "a", ".">>

\* strings.HasPrefix(key, "@odata.")
HasPrefix(key, prefix) ==
    /\ Len(KeyText(key)) >= Len(prefix)
    /\ SubSeq(KeyText(key), 1, Len(prefix)) = prefix

ToLower(c) ==
    CASE c = "T" -> "t"
      [] c = "X" -> "x"
      [] OTHER -> c

\* strings.EqualFold
EqualFold(s, t) ==
    /\ Len(s) = Len(t)
    /\ \A i \in 1..Len(s) : ToLower(s[i]) = ToLower(t[i])

RedactedText == <<"<", "r", "e", "d", "a", "c", "t", "e", "d", ">">>

\* a test that forgets the empty string
IsMissingTextNotEmpty(s) ==
    \/ (Len(s) >= 1 /\ \A i \in 1..Len(s) : s[i] = "*")
    \/ s = RedactedText

\* regexp `^\*+$` matches, or the string is "<redacted>", or it is empty
IsMissingText(s) ==
    \/ (Len(s) >= 1 /\ \A i \in 1..Len(s) : s[i] = "*")
    \/ s = RedactedText
    \/ s = <<>>

-----------------------------------------------------------------------------
(* internal/utils: the helpers *)

\* an emptiness test that knows nil only
IsEmptyObjectNilOnly(x) == x = Nil

IsEmptyObject(x) ==
    \/ x = Nil
    \/ (IsMap(x) /\ DOMAIN x.v = {})
    \/ (IsSlice(x) /\ Len(x.v) = 0)

\* a merge of objects in which old's value stands where both have the key
MergeObjectOldWins(old, new) ==
    IF new = Nil THEN new
    ELSE IF IsMap(old) /\ IsMap(new) THEN
        Obj([key \in DOMAIN old.v \cup DOMAIN new.v |->
               IF key \in DOMAIN old.v THEN old.v[key] ELSE new.v[key]])
    ELSE new

RECURSIVE MergeObject(_, _)

\* a merge without the second loop: what only new holds is left out
MergeObjectOfOldKeys(old, new) ==
    IF new = Nil THEN new
    ELSE IF IsMap(old) /\ IsMap(new) THEN
        Obj([key \in DOMAIN old.v |->
               IF key \in DOMAIN new.v
               THEN MergeObject(old.v[key], new.v[key])
               ELSE old.v[key]])
    ELSE IF IsSlice(old) /\ IsSlice(new) THEN
        IF Len(old.v) # Len(new.v) THEN new
        ELSE Arr([i \in 1..Len(old.v) |-> MergeObject(old.v[i], new.v[i])])
    ELSE new

MergeObject(old, new) ==
    IF new = Nil THEN new
    ELSE IF IsMap(old) /\ IsMap(new) THEN
        LET first == [key \in DOMAIN old.v |->
                        IF key \in DOMAIN new.v
                        THEN MergeObject(old.v[key], new.v[key])
                        ELSE old.v[key]]
            \* res[key] == nil: the key is missing from res or holds nil
            added == {key \in DOMAIN new.v :
                        key \notin DOMAIN first \/ first[key] = Nil}
        IN Obj([key \in DOMAIN first \cup added |->
                  IF key \in added THEN new.v[key] ELSE first[key]])
    ELSE IF IsSlice(old) /\ IsSlice(new) THEN
        IF Len(old.v) # Len(new.v) THEN new
        ELSE Arr([i \in 1..Len(old.v) |-> MergeObject(old.v[i], new.v[i])])
    ELSE new

\* identifierOfArrayItem: the string under "name" of an object, "" otherwise
identifierOfArrayItem(input) ==
    IF ~IsMap(input) THEN <<>>
    ELSE IF "name" \notin DOMAIN input.v THEN <<>>
    ELSE IF ~IsString(input.v["name"]) THEN <<>>
    ELSE input.v["name"].v

areSameArrayItems(a, b) ==
    /\ identifierOfArrayItem(a) # <<>>
    /\ identifierOfArrayItem(b) # <<>>
    /\ identifierOfArrayItem(a) = identifierOfArrayItem(b)

\* isZeroValue: in the case that lists int, int32, int64, float32 and float64
\* v keeps the type interface{}, and v == 0 compares it with the int 0, which
\* no value of another numeric type equals
isZeroValue(value) ==
    \/ value = Nil
    \/ (IsMap(value) /\ DOMAIN value.v = {})
    \/ (IsSlice(value) /\ Len(value.v) = 0)
    \/ (IsString(value) /\ Len(value.v) = 0)
    \/ (value.k = "int" /\ value.v = 0)
    \/ (value.k = "bool" /\ ~value.v)

MinOf(S) == CHOOSE j \in S : \A q \in S : j <= q

RECURSIVE UpdateObject(_, _, _)

\* a loop that does not look at used: a new item can be taken twice
RECURSIVE UpdateItemsReusing(_, _, _, _, _)
UpdateItemsReusing(oldArr, newArr, option, i, st) ==
    IF i > Len(oldArr) THEN st
    ELSE
        LET oldItem == oldArr[i]
            exact == {j \in 1..Len(newArr) : newArr[j] = oldItem}
            same == {j \in 1..Len(newArr) : areSameArrayItems(oldItem, newArr[j])}
            pick == IF exact # {} THEN MinOf(exact)
                    ELSE IF same # {} THEN MinOf(same)
                    ELSE 0
        IN UpdateItemsReusing(oldArr, newArr, option, i + 1,
               IF pick = 0 THEN st
               ELSE [res |-> Append(st.res, UpdateObject(oldItem, newArr[pick], option)),
                     used |-> st.used \cup {pick}])

\* the loop over the old items of an array whose first item has an identifier:
\* st.res collects the reconciled items, st.used the indices of newArr taken
RECURSIVE UpdateItems(_, _, _, _, _)
UpdateItems(oldArr, newArr, option, i, st) ==
    IF i > Len(oldArr) THEN st
    ELSE
        LET oldItem == oldArr[i]
            exact == {j \in 1..Len(newArr) : newArr[j] = oldItem /\ j \notin st.used}
            same == {j \in 1..Len(newArr) :
                       areSameArrayItems(oldItem, newArr[j]) /\ j \notin st.used}
            pick == IF exact # {} THEN MinOf(exact)
                    ELSE IF same # {} THEN MinOf(same)
                    ELSE 0
        IN UpdateItems(oldArr, newArr, option, i + 1,
               IF pick = 0 THEN st
               ELSE [res |-> Append(st.res, UpdateObject(oldItem, newArr[pick], option)),
                     used |-> st.used \cup {pick}])

\* a tail that forgets the insertions
UnusedItemsDropped(newArr, used, j) == <<>>

\* the items of newArr whose index is not in used, in newArr's order
RECURSIVE UnusedItems(_, _, _)
UnusedItems(newArr, used, j) ==
    IF j > Len(newArr) THEN <<>>
    ELSE (IF j \in used THEN <<>> ELSE <<newArr[j]>>) \o UnusedItems(newArr, used, j + 1)

\* an object loop that takes over what new holds, as a merge would
UpdateFieldsOfBoth(oldMap, newMap, option) ==
    [key \in DOMAIN oldMap \cup DOMAIN newMap |->
       IF key \in DOMAIN newMap THEN newMap[key] ELSE oldMap[key]]

\* the loop over the keys of oldValue: res[key] is nil, the reconciled value
\* or the old value, or the key is left out
UpdateFields(oldMap, newMap, option) ==
    LET keepNull(key) == oldMap[key] = Nil /\ option.IgnoreNullProperty
        fromNew(key) == key \in DOMAIN newMap /\ newMap[key] # Nil
        kept == {key \in DOMAIN oldMap :
                   \/ keepNull(key)
                   \/ fromNew(key)
                   \/ option.IgnoreMissingProperty
                   \/ isZeroValue(oldMap[key])}
    IN [key \in kept |->
          IF keepNull(key) THEN Nil
          ELSE IF fromNew(key)
               THEN UpdateObject(oldMap[key], newMap[key], option)
               ELSE oldMap[key]]

UpdateObject(old, new, option) ==
    IF old = new THEN old
    ELSE IF IsMap(old) /\ IsMap(new) THEN Obj(UpdateFields(old.v, new.v, option))
    ELSE IF IsSlice(old) /\ IsSlice(new) THEN
        IF Len(old.v) = 0 THEN new
        ELSE IF identifierOfArrayItem(old.v[1]) = <<>> THEN
            IF Len(old.v) # Len(new.v) THEN new
            ELSE Arr([i \in 1..Len(old.v) |-> UpdateObject(old.v[i], new.v[i], option)])
        ELSE
            LET st == UpdateItems(old.v, new.v, option, 1, [res |-> <<>>, used |-> {}])
            IN Arr(st.res \o UnusedItems(new.v, st.used, 1))
    ELSE IF /\ IsString(old) /\ IsString(new)
            /\ \/ (option.IgnoreCasing /\ EqualFold(old.v, new.v))
               \/ (option.IgnoreMissingProperty /\ IsMissingText(new.v))
         THEN old
    ELSE new

RECURSIVE DiffObject(_, _, _)

\* a first loop that forgets the keys old does not have
DiffChangedNoCreate(oldMap, newMap, option) ==
    LET sub == [key \in DOMAIN newMap \cap DOMAIN oldMap |->
                  DiffObject(oldMap[key], newMap[key], option)]
    IN [key \in {q \in DOMAIN newMap \cap DOMAIN oldMap : ~IsEmptyObject(sub[q])} |->
          sub[key]]

\* a first loop that also reports the keys new has dropped, as null
DiffChangedWithRemovals(oldMap, newMap, option) ==
    LET sub == [key \in DOMAIN newMap \cap DOMAIN oldMap |->
                  DiffObject(oldMap[key], newMap[key], option)]
        kept == {key \in DOMAIN newMap :
                   key \in DOMAIN oldMap => ~IsEmptyObject(sub[key])}
    IN [key \in kept \cup (DOMAIN oldMap \ DOMAIN newMap) |->
          IF key \notin DOMAIN newMap THEN Nil
          ELSE IF key \in DOMAIN oldMap THEN sub[key] ELSE newMap[key]]

\* the first loop over newMap: a key old lacks is taken whole, a key of both
\* is taken when its recursive patch is not empty
DiffChanged(oldMap, newMap, option) ==
    LET sub == [key \in DOMAIN newMap \cap DOMAIN oldMap |->
                  DiffObject(oldMap[key], newMap[key], option)]
        kept == {key \in DOMAIN newMap :
                   key \in DOMAIN oldMap => ~IsEmptyObject(sub[key])}
    IN [key \in kept |-> IF key \in DOMAIN oldMap THEN sub[key] ELSE newMap[key]]

\* a second loop that also runs when the first loop found no change
DiffWithODataAlways(res, newMap) ==
    LET odata == {key \in DOMAIN newMap :
                    /\ HasPrefix(key, ODataPrefix)
                    /\ (key \notin DOMAIN res \/ res[key] = Nil)}
    IN [key \in DOMAIN res \cup odata |->
          IF key \in odata THEN newMap[key] ELSE res[key]]

\* a second loop that adds nothing
DiffWithoutOData(res, newMap) == res

\* the second loop: when res has an entry, every "@odata." key of newMap that
\* res lacks (res[key] == nil) is set to newMap's value
DiffWithOData(res, newMap) ==
    LET odata == IF DOMAIN res # {}
                 THEN {key \in DOMAIN newMap :
                         /\ HasPrefix(key, ODataPrefix)
                         /\ (key \notin DOMAIN res \/ res[key] = Nil)}
                 ELSE {}
    IN [key \in DOMAIN res \cup odata |->
          IF key \in odata THEN newMap[key] ELSE res[key]]

DiffObject(old, new, option) ==
    IF old = new THEN Nil
    ELSE IF IsMap(old) /\ IsMap(new) THEN
        LET res == DiffWithOData(DiffChanged(old.v, new.v, option), new.v)
        IN IF DOMAIN res = {} THEN Nil ELSE Obj(res)
    ELSE IF IsSlice(old) /\ IsSlice(new) THEN new
    ELSE IF /\ IsString(old) /\ IsString(new)
            /\ \/ (option.IgnoreCasing /\ EqualFold(old.v, new.v))
               \/ (option.IgnoreMissingProperty /\ IsMissingText(new.v))
         THEN Nil
    ELSE new

-----------------------------------------------------------------------------
(* The bounded inputs of the helpers *)

MaxArrLen == 2

Objs(keys, vals) == {Obj(f) : f \in UNION {[s -> vals] : s \in SUBSET keys}}
Arrs(vals, n) == {Arr(f) : f \in UNION {[1..m -> vals] : m \in 0..n}}

\* one object with the value x under key and the fields of o beside it
With(o, key, x) == Obj([q \in DOMAIN o.v \cup {key} |-> IF q = key THEN x ELSE o.v[q]])

Leaves == {Nil, Str(<<"T">>), Str(<<"t">>), Str(<<>>), Str(<<"*", "*">>), Num(1)}
InnerObjs == Objs({"@odata.type", "a"}, {Str(<<"T">>), Num(1)})
InnerArrs == Arrs({Str(<<"T">>), Num(1)}, MaxArrLen)
DiscriminatorVals ==
    {Nil, Str(<<"T">>), Str(<<"t">>),
     Obj([q \in {"a"} |-> Num(1)]),
     Obj([q \in {"a", "b"} |-> Num(1)])}
FieldVals == Leaves \cup InnerObjs \cup InnerArrs
TopObjs ==
    LET base == Objs({"b"}, {Num(1)})
        withA == base \cup {With(o, "a", x) : o \in base, x \in FieldVals}
    IN withA \cup {With(o, "@odata.type", x) : o \in withA, x \in DiscriminatorVals}
DiffValues == Leaves \cup {Str(RedactedText)} \cup InnerArrs \cup TopObjs
DiffOptions ==
    [IgnoreCasing : BOOLEAN, IgnoreMissingProperty : BOOLEAN,
     IgnoreNullProperty : {FALSE}]
NoOption ==
    [IgnoreCasing |-> FALSE, IgnoreMissingProperty |-> FALSE,
     IgnoreNullProperty |-> FALSE]

HelperInit ==
    /\ fin = [fn |-> "none", old |-> Nil, new |-> Nil, option |-> NoOption]
    /\ fout = [done |-> FALSE, res |-> Nil]

ApplyDiffObject ==
    /\ ~fout.done
    /\ \E old \in DiffValues, new \in DiffValues, option \in DiffOptions :
         /\ fin' = [fn |-> "DiffObject", old |-> old, new |-> new, option |-> option]
         /\ fout' = [done |-> TRUE, res |-> DiffObject(old, new, option)]
    /\ UNCHANGED handlerVars

\* the inputs of UpdateObject: array items with and without a "name",
\* objects over two keys, strings that are redacted, empty or differ in case
Item(name, v) == Obj([q \in {"name", "v"} |-> IF q = "name" THEN Str(name) ELSE Num(v)])
UpdateItemVals ==
    {Item(<<"x">>, 1), Item(<<"y">>, 2), Item(<<"x">>, 9),
     With(Item(<<"x">>, 9), "c", Num(5)), Num(1)}
UpdateArrs == Arrs(UpdateItemVals, MaxArrLen)
UpdateStrings ==
    {Str(<<"T">>), Str(<<"t">>), Str(<<>>), Str(<<"*">>), Str(<<"*", "*">>),
     Str(<<"*", "t">>), Str(RedactedText)}
UpdateObjs ==
    Objs({"a", "b"}, {Nil, Num(0), GoInt(0), Num(1), Str(<<"T">>), Str(<<"*">>)})
UpdateValues == {Nil} \cup UpdateStrings \cup UpdateArrs \cup UpdateObjs
UpdateOptions ==
    [IgnoreCasing : BOOLEAN, IgnoreMissingProperty : BOOLEAN,
     IgnoreNullProperty : BOOLEAN]

ApplyUpdateObject ==
    /\ ~fout.done
    /\ \E old \in UpdateValues, new \in UpdateValues, option \in UpdateOptions :
         /\ fin' = [fn |-> "UpdateObject", old |-> old, new |-> new, option |-> option]
         /\ fout' = [done |-> TRUE, res |-> UpdateObject(old, new, option)]
    /\ UNCHANGED handlerVars

\* the inputs of MergeObject: scalars, arrays, and objects that nest both
MergeLeaves == {Nil, Num(1), Num(2), Str(<<"T">>)}
MergeInner == Objs({"a"}, MergeLeaves) \cup Arrs({Num(1), Num(2)}, MaxArrLen)
MergeValues == MergeLeaves \cup MergeInner \cup Objs({"a", "b"}, MergeLeaves \cup MergeInner)

ApplyMergeObject ==
    /\ ~fout.done
    /\ \E old \in MergeValues, new \in MergeValues :
         /\ fin' = [fn |-> "MergeObject", old |-> old, new |-> new, option |-> NoOption]
         /\ fout' = [done |-> TRUE, res |-> MergeObject(old, new)]
    /\ UNCHANGED handlerVars

Untracked == [present |-> FALSE, body |-> Nil, id |-> <<>>, output |-> Nil]

-----------------------------------------------------------------------------
(* The remote collaborator and the handlers' inputs *)

MaxPolls == 2
StatusNotFound == 404

\* an error value: nil (NoErr), an *azcore.ResponseError, or another error
\* with its text in code; inner holds the error it wraps, if any
NoErr == [response |-> FALSE, status |-> 0, code |-> "", inner |-> <<>>]
ResponseError(status, code) ==
    [response |-> TRUE, status |-> status, code |-> code, inner |-> <<>>]
PlainError(text) == [response |-> FALSE, status |-> 0, code |-> text, inner |-> <<>>]
WrapError(text, err) == [response |-> FALSE, status |-> 0, code |-> text, inner |-> <<err>>]
DeadlineExceeded == PlainError("context deadline exceeded")

\* errors.As(err, &responseErr): the first response error of err's chain
RECURSIVE AsResponseError(_)
AsResponseError(err) ==
    IF err.response THEN <<err>>
    ELSE IF err.inner = <<>> THEN <<>>
    ELSE AsResponseError(err.inner[1])

\* a test that looks at the status code only
ResponseErrorWasNotFoundByStatus(err) ==
    /\ AsResponseError(err) # <<>>
    /\ AsResponseError(err)[1].status = StatusNotFound

ResponseErrorWasNotFound(err) ==
    LET responseErr == AsResponseError(err)
    IN /\ responseErr # <<>>
       /\ \/ responseErr[1].status = StatusNotFound
          \/ responseErr[1].code = "ResourceNotFound"

\* what a remote call can return: once the context is done, only its error
RemoteErrors ==
    IF ctxDone THEN {DeadlineExceeded}
    ELSE {ResponseError(404, ""), ResponseError(400, "ResourceNotFound"),
          ResponseError(500, "")}
Outcomes(resps) ==
    {[err |-> e, resp |-> Nil] : e \in RemoteErrors}
        \cup (IF ctxDone THEN {} ELSE {[err |-> NoErr, resp |-> r] : r \in resps})

Entry(step, call, body, out) ==
    [step |-> step, call |-> call, body |-> body, err |-> out.err, resp |-> out.resp]
Local == [err |-> NoErr, resp |-> Nil]

\* the inputs of ResponseErrorWasNotFound: nil, response errors, other
\* errors, and each of them wrapped up to MaxWrap times
MaxWrap == 2
Statuses == {400, 401, 403, 404, 409, 410, 429, 500, 502, 503}
ErrorCodes == {"", "ResourceNotFound", "BadRequest", "InternalServerError"}
RECURSIVE Wrapped(_, _)
Wrapped(errs, n) ==
    IF n = 0 THEN errs
    ELSE errs \cup {WrapError("wrapped", e) : e \in Wrapped(errs, n - 1)}
Errors ==
    {NoErr} \cup Wrapped({ResponseError(st, c) : st \in Statuses, c \in ErrorCodes}
                           \cup {PlainError("some error")}, MaxWrap)

ApplyResponseErrorWasNotFound ==
    /\ ~fout.done
    /\ \E err \in Errors :
         /\ fin' = [fn |-> "ResponseErrorWasNotFound", old |-> err, new |-> Nil,
                    option |-> NoOption]
         /\ fout' = [done |-> TRUE, res |-> Bool(ResponseErrorWasNotFound(err))]
    /\ UNCHANGED handlerVars

\* no handler is running
Quiet ==
    /\ op = "none"
    /\ pc = "idle"
    /\ plan = [body |-> Nil, method |-> "null"]
    /\ prior = Untracked
    /\ model = [id |-> <<>>, output |-> Nil]
    /\ reqBody = Nil
    /\ ctxDone = FALSE
    /\ polls = 0
    /\ waitErr = NoErr
    /\ log = <<>>
    /\ diag = ""

CollectionUrl == <<"g">>
RelationshipUrl == <<"g", "/", "i", "/", "m", "/", "$", "r", "e", "f">>
ItemUrl == <<"g", "/", "i">>
RefSuffix == <<"/", "$", "r", "e", "f">>
DirectoryObjects ==
    <<"h", "t", "t", "p", "s", ":", "/", "/", "g", "r", "a", "p",
      "h", ".", "m", "i", "c", "r", "o", "s", "o", "f", "t", ".",
      "c", "o", "m", "/", "v", "1", ".", "0", "/", "d", "i", "r",
      "e", "c", "t", "o", "r", "y", "O", "b", "j", "e", "c", "t",
      "s", "/">>

HasSuffix(s, suffix) ==
    /\ Len(s) >= Len(suffix)
    /\ SubSeq(s, Len(s) - Len(suffix) + 1, Len(s)) = suffix

\* s[strings.LastIndex(s, "/")+1:]
AfterLastSlash(s) ==
    LET slashes == {i \in 1..Len(s) : s[i] = "/"}
        last == IF slashes = {} THEN 0 ELSE CHOOSE i \in slashes : \A j \in slashes : j <= i
    IN SubSeq(s, last + 1, Len(s))

LastSegment(url) == AfterLastSlash(url)

IsRelationship == HasSuffix(cfg.url, RefSuffix)

T1 == Str(<<"T">>)
T2 == Str(<<"t">>)
Id1 == <<"i">>
Id2 == <<"j">>

Bodies ==
    {Obj([q \in {"a", "b"} |-> IF q = "a" THEN T1 ELSE Num(1)]),
     Obj([q \in {"a", "b"} |-> IF q = "a" THEN T2 ELSE Num(1)]),
     Obj([q \in {"a"} |-> T1]),
     Obj([q \in {"a", "b"} |-> IF q = "a" THEN Nil ELSE Num(1)]),
     Obj([q \in {"a", "b"} |-> IF q = "a" THEN EmptyMap ELSE Num(1)]),
     Obj([q \in {"a", "b"} |-> IF q = "a" THEN Arr(<<>>) ELSE Num(1)]),
     Obj([q \in {"@odata.type", "a"} |-> T1])}
\* the second reference names the same object under another base url
RefBodies ==
    {Obj([q \in {"@odata.id"} |-> Str(DirectoryObjects \o Id1)]),
     Obj([q \in {"@odata.id"} |-> Str(<<"o", "/">> \o Id1)]),
     Obj([q \in {"a"} |-> T1])}
Methods == {"null", "PATCH", "PUT"}
CreateResponses ==
    {Nil,
     Obj([q \in {"id", "a"} |-> IF q = "id" THEN Str(Id1) ELSE T1]),
     Obj([q \in {"a"} |-> T1])}
ServerDocs ==
    {Obj([q \in {"id", "a", "b"} |->
            IF q = "id" THEN Str(Id1) ELSE IF q = "a" THEN T1 ELSE Num(1)]),
     Obj([q \in {"id", "a"} |-> IF q = "id" THEN Str(Id1) ELSE T2]),
     Obj([q \in {"id", "a", "b"} |->
            IF q = "id" THEN Str(Id1) ELSE IF q = "a" THEN T1 ELSE Num(2)])}
RefLists == {Arr(<<>>), Arr(<<Str(Id2), Str(Id1)>>)}
Ignored == {Nil}

Configs ==
    [kind : {"msgraph_resource"}, url : {CollectionUrl, RelationshipUrl, <<>>},
     ignoreMissing : BOOLEAN]
        \cup [kind : {"msgraph_update_resource"}, url : {ItemUrl},
              ignoreMissing : BOOLEAN]

-----------------------------------------------------------------------------
(* internal/services: msgraph_resource *)

\* the id Create records: for a relationship the last segment of the request
\* body's "@odata.id", otherwise the "id" of the response; "" when not a string
CreatedId(isRelationship, requestBody, responseBody) ==
    IF isRelationship THEN
        IF /\ IsMap(requestBody)
           /\ "@odata.id" \in DOMAIN requestBody.v
           /\ IsString(requestBody.v["@odata.id"])
        THEN AfterLastSlash(requestBody.v["@odata.id"].v)
        ELSE <<>>
    ELSE
        IF /\ IsMap(responseBody)
           /\ "id" \in DOMAIN responseBody.v
           /\ IsString(responseBody.v["id"])
        THEN responseBody.v["id"].v
        ELSE <<>>

\* buildOutputFromBody with no response_export_values: the empty object
BuildOutput(body) == EmptyMap

\* updateMethod := "PATCH"; if !model.UpdateMethod.IsNull() { ... }
UpdateMethodOf(method) == IF method = "null" THEN "PATCH" ELSE method

\* an Update that sends the planned body as the PATCH
PatchBodyWhole(previousBody, requestBody) == requestBody

\* the body of the PATCH request of Update
PatchBody(previousBody, requestBody) == DiffObject(previousBody, requestBody, NoOption)

\* the body of the PUT request of Update: the planned body as it is
PutBody(requestBody) == requestBody

\* a handler that reads back without waiting, and one that reads back a relationship
AfterMutateNoPoll == "read"
AfterPollAlwaysRead(o, isRelationship) == IF o = "Delete" THEN "done" ELSE "read"

\* where Create and Update go after the mutating step, and after the poll
AfterMutate == "poll"
AfterPoll(o, isRelationship) ==
    IF o = "Delete" THEN "done"
    ELSE IF o = "Create" /\ isRelationship THEN "write"
    ELSE "read"

\* a handler that saves its working copy before it checks the error
StateOnErrorSaved(given, working) ==
    [present |-> TRUE, body |-> given.body, id |-> working.id, output |-> working.output]

\* the tracked state a handler leaves when it returns with an error
StateOnError(given, working) == given

\* an existence check that passes every error on
ResourceExistenceStrict(out, id, isRelationship) ==
    IF out.err # NoErr THEN "error"
    ELSE IF isRelationship THEN
        IF \E i \in 1..Len(out.resp.v) : out.resp.v[i] = Str(id) THEN "true" ELSE "false"
    ELSE "true"

\* ResourceExistenceFunc: "true", "false" or "error" from the outcome of its
\* remote call (ListRefIDs for a relationship, Read otherwise)
ResourceExistence(out, id, isRelationship) ==
    IF out.err # NoErr THEN
        IF ResponseErrorWasNotFound(out.err) THEN "false" ELSE "error"
    ELSE IF isRelationship THEN
        IF \E i \in 1..Len(out.resp.v) : out.resp.v[i] = Str(id) THEN "true" ELSE "false"
    ELSE "true"

\* a Read that takes every error as "gone"
ReadUntracksAlways(err) == TRUE

\* whether Read takes an error of its remote call as "gone"
ReadUntracks(err) == ResponseErrorWasNotFound(err)

\* a Read that reconciles strings without regard to their case
ReadOptionIgnoreCasing ==
    [IgnoreCasing |-> TRUE, IgnoreMissingProperty |-> cfg.ignoreMissing,
     IgnoreNullProperty |-> FALSE]

\* the policy Read reconciles the tracked body with
ReadOption ==
    [IgnoreCasing |-> FALSE, IgnoreMissingProperty |-> cfg.ignoreMissing,
     IgnoreNullProperty |-> FALSE]

\* a Read that reconciles a body that is null as well
ReconciledBodyAlways(body, responseBody) == UpdateObject(body, responseBody, ReadOption)

\* the body Read leaves when the move flag is not "true": a body that is not
\* null is reconciled with the document read, a null body stays null
ReconciledBody(body, responseBody) ==
    IF body # Nil THEN UpdateObject(body, responseBody, ReadOption) ELSE body

Begin(o, p, first, m) ==
    /\ op = "none"
    /\ op' = o
    /\ pc' = first
    /\ plan' = p
    /\ prior' = tracked
    /\ model' = m
    /\ reqBody' = p.body
    /\ UNCHANGED <<fin, fout, cfg, tracked, moveFlag, ctxDone, polls, waitErr, log, diag>>

\* the framework calls Create for a resource that is not tracked
StartCreate ==
    /\ ~tracked.present
    /\ \E body \in (IF IsRelationship THEN RefBodies ELSE Bodies), method \in Methods :
         Begin("Create", [body |-> body, method |-> method],
               IF cfg.kind = "msgraph_update_resource" /\ method = "PUT"
               THEN "preread" ELSE "mutate",
               [id |-> <<>>, output |-> Nil])

\* the framework calls Update with the plan and the prior state; ModifyPlan
\* has a relationship replaced when its body changes
StartUpdate ==
    /\ tracked.present
    /\ \E body \in (IF IsRelationship THEN RefBodies ELSE Bodies), method \in Methods :
         /\ IsRelationship => body = tracked.body
         /\ Begin("Update", [body |-> body, method |-> method],
                  IF cfg.kind = "msgraph_update_resource" /\ method = "PUT"
                  THEN "preread" ELSE "mutate",
                  [id |-> tracked.id, output |-> Nil])

StartRead ==
    /\ tracked.present
    /\ Begin("Read", [body |-> tracked.body, method |-> "null"], "read",
             [id |-> tracked.id, output |-> tracked.output])

StartDelete ==
    /\ tracked.present
    /\ Begin("Delete", [body |-> tracked.body, method |-> "null"], "mutate",
             [id |-> tracked.id, output |-> tracked.output])

\* context.WithTimeout: the deadline of the running handler fires
DeadlineFires ==
    /\ op # "none"
    /\ pc # "done"
    /\ ~ctxDone
    /\ ctxDone' = TRUE
    /\ UNCHANGED <<fin, fout, cfg, tracked, moveFlag, op, pc, plan, prior, model,
                   reqBody, polls, waitErr, log, diag>>

Fail(summary) ==
    /\ diag' = summary
    /\ pc' = "done"
    /\ tracked' = StateOnError(tracked, model)

ResourceCreateMutate ==
    /\ cfg.kind = "msgraph_resource" /\ op = "Create" /\ pc = "mutate"
    /\ \E out \in Outcomes(CreateResponses) :
         /\ log' = Append(log, Entry("mutate", "Create", reqBody, out))
         /\ IF out.err # NoErr
            THEN Fail("Failed to create resource") /\ UNCHANGED model
            ELSE /\ model' = [model EXCEPT !.id = CreatedId(IsRelationship, reqBody, out.resp)]
                 /\ pc' = AfterMutate
                 /\ UNCHANGED <<diag, tracked>>
    /\ UNCHANGED <<fin, fout, cfg, moveFlag, op, plan, prior, reqBody, ctxDone, polls, waitErr>>

ResourceUpdateMutate ==
    /\ cfg.kind = "msgraph_resource" /\ op = "Update" /\ pc = "mutate"
    /\ IF UpdateMethodOf(plan.method) = "PUT"
       THEN \E out \in Outcomes(Ignored) :
              /\ reqBody' = PutBody(plan.body)
              /\ log' = Append(log, Entry("mutate", "PUT", reqBody', out))
              /\ IF out.err # NoErr
                 THEN Fail("Failed to update resource")
                 ELSE pc' = AfterMutate /\ UNCHANGED <<diag, tracked>>
       ELSE /\ reqBody' = PatchBody(prior.body, plan.body)
            /\ IF ~IsEmptyObject(reqBody')
               THEN \E out \in Outcomes(Ignored) :
                      /\ log' = Append(log, Entry("mutate", "PATCH", reqBody', out))
                      /\ IF out.err # NoErr
                         THEN Fail("Failed to create resource")
                         ELSE pc' = AfterMutate /\ UNCHANGED <<diag, tracked>>
               ELSE /\ pc' = AfterMutate
                    /\ UNCHANGED <<log, diag, tracked>>
    /\ UNCHANGED <<fin, fout, cfg, moveFlag, op, plan, prior, model, ctxDone, polls, waitErr>>

ResourceDeleteMutate ==
    /\ cfg.kind = "msgraph_resource" /\ op = "Delete" /\ pc = "mutate"
    /\ \E out \in Outcomes(Ignored) :
         /\ log' = Append(log, Entry("mutate", "Delete", Nil, out))
         /\ IF out.err # NoErr
            THEN Fail("Failed to delete resource")
            ELSE pc' = AfterMutate /\ UNCHANGED <<diag, tracked>>
    /\ UNCHANGED <<fin, fout, cfg, moveFlag, op, plan, prior, model, reqBody,
                   ctxDone, polls, waitErr>>

PollSummary == IF op = "Delete" THEN "Error waiting for deletion" ELSE "Error"

\* an existence check that goes to the server whatever it was given
ExistencePrecheckSkipped(modelIsNil, clientIsNil, id, url) == NoErr

\* the checks ResourceExistenceFunc makes before its remote call
ExistencePrecheck(modelIsNil, clientIsNil, id, url) ==
    IF modelIsNil THEN PlainError("model is nil")
    ELSE IF clientIsNil THEN PlainError("client is nil")
    ELSE IF id = <<>> THEN PlainError("resource ID is empty")
    ELSE IF url = <<>> THEN PlainError("resource URL is empty")
    ELSE NoErr

\* a wait that goes on after its context is done
WaitKeepsOn(done) == FALSE

\* the wait checks its context between attempts
WaitStops(done) == done

\* what the wait makes of one attempt of the predicate
WaitOutcome(observed, expected) ==
    IF observed = "error" THEN "failed"
    ELSE IF observed = expected THEN "satisfied"
    ELSE "again"

\* consistency.WaitForUpdate / WaitForDeletion around ResourceExistenceFunc:
\* one attempt, or the deadline cutting the wait short
PollAttempt ==
    /\ cfg.kind = "msgraph_resource" /\ op \in {"Create", "Update", "Delete"}
    /\ pc = "poll"
    /\ WaitStops(ctxDone) \/ polls < MaxPolls
    /\ LET precheck == ExistencePrecheck(FALSE, FALSE, model.id, cfg.url)
           expected == IF op = "Delete" THEN "false" ELSE "true"
       IN IF WaitStops(ctxDone)
          THEN /\ waitErr' = DeadlineExceeded
               /\ Fail(PollSummary)
               /\ UNCHANGED <<log, polls>>
          ELSE IF precheck # NoErr
          THEN /\ waitErr' = precheck
               /\ Fail(PollSummary)
               /\ UNCHANGED <<log, polls>>
          ELSE \E out \in Outcomes(IF IsRelationship THEN RefLists ELSE ServerDocs) :
                 LET observed == ResourceExistence(out, model.id, IsRelationship)
                     outcome == WaitOutcome(observed, expected)
                 IN /\ log' = Append(log, Entry("poll",
                                 IF IsRelationship THEN "ListRefIDs" ELSE "Read", Nil, out))
                    /\ IF outcome = "failed"
                       THEN /\ waitErr' = out.err
                            /\ Fail(PollSummary)
                            /\ UNCHANGED polls
                       ELSE IF outcome = "satisfied"
                       THEN /\ pc' = AfterPoll(op, IsRelationship)
                            /\ tracked' = IF op = "Delete" THEN Untracked ELSE tracked
                            /\ UNCHANGED <<diag, polls, waitErr>>
                       ELSE /\ polls' = polls + 1
                            /\ UNCHANGED <<pc, diag, tracked, waitErr>>
    /\ UNCHANGED <<fin, fout, cfg, moveFlag, op, plan, prior, model, reqBody, ctxDone>>

ResourceReadBack ==
    /\ cfg.kind = "msgraph_resource" /\ op \in {"Create", "Update"} /\ pc = "read"
    /\ \E out \in Outcomes(ServerDocs) :
         /\ log' = Append(log, Entry("readback", "Read", Nil, out))
         /\ IF out.err # NoErr
            THEN Fail("Failed to read data source")
            ELSE pc' = "write" /\ UNCHANGED <<diag, tracked>>
    /\ UNCHANGED <<fin, fout, cfg, moveFlag, op, plan, prior, model, reqBody,
                   ctxDone, polls, waitErr>>

\* model.Output = buildOutputFromBody(...); resp.State.Set(ctx, &model)
WriteState ==
    /\ op \in {"Create", "Update"} /\ pc = "write"
    /\ model' = [model EXCEPT !.output = BuildOutput(Nil)]
    /\ tracked' = [present |-> TRUE, body |-> plan.body, id |-> model.id,
                   output |-> BuildOutput(Nil)]
    /\ log' = Append(log, Entry("write", "State.Set", plan.body, Local))
    /\ pc' = "done"
    /\ UNCHANGED <<fin, fout, cfg, moveFlag, op, plan, prior, reqBody, ctxDone,
                   polls, waitErr, diag>>

\* resp.State.RemoveResource(ctx); return
Remove(called) ==
    /\ tracked' = Untracked
    /\ log' = Append(called, Entry("write", "State.RemoveResource", Nil, Local))
    /\ pc' = "done"
    /\ UNCHANGED <<diag, moveFlag>>

ReadFail(called, summary) ==
    /\ Fail(summary)
    /\ log' = called
    /\ UNCHANGED moveFlag

ResourceRead ==
    /\ cfg.kind = "msgraph_resource" /\ op = "Read" /\ pc = "read"
    /\ IF IsRelationship
       THEN \E out \in Outcomes(RefLists) :
              LET called == Append(log, Entry("read", "ListRefIDs", Nil, out))
              IN IF out.err # NoErr
                 THEN IF ReadUntracks(out.err)
                      THEN Remove(called)
                      ELSE ReadFail(called, "Failed to read collection")
                 ELSE IF ~\E i \in 1..Len(out.resp.v) : out.resp.v[i] = Str(model.id)
                      THEN Remove(called)
                      ELSE LET body == IF moveFlag = "true"
                                       THEN Obj([q \in {"@odata.id"} |->
                                                   Str(DirectoryObjects \o model.id)])
                                       ELSE tracked.body
                           IN /\ tracked' = [tracked EXCEPT !.body = body, !.output = Nil]
                              /\ moveFlag' = IF moveFlag = "true" THEN "false" ELSE moveFlag
                              /\ log' = Append(called, Entry("write", "State.Set", body, Local))
                              /\ pc' = "done"
                              /\ UNCHANGED diag
       ELSE \E out \in Outcomes(ServerDocs) :
              LET called == Append(log, Entry("read", "Read", Nil, out))
              IN IF out.err # NoErr
                 THEN IF ReadUntracks(out.err)
                      THEN Remove(called)
                      ELSE ReadFail(called, "Failed to read data source")
                 ELSE LET body == IF moveFlag = "true" THEN out.resp
                                  ELSE ReconciledBody(tracked.body, out.resp)
                      IN /\ tracked' = [tracked EXCEPT !.body = body,
                                                       !.output = BuildOutput(out.resp)]
                         /\ moveFlag' = IF moveFlag = "true" THEN "false" ELSE moveFlag
                         /\ log' = Append(called, Entry("write", "State.Set", body, Local))
                         /\ pc' = "done"
                         /\ UNCHANGED diag
    /\ UNCHANGED <<fin, fout, cfg, op, plan, prior, model, reqBody, ctxDone, polls, waitErr>>

-----------------------------------------------------------------------------
(* internal/services: msgraph_update_resource *)

\* a PUT that sends the declared body without the server's fields
PutUnmergedBody(existingBody, requestBody) == requestBody

\* requestBody = utils.MergeObject(existingBody, requestBody)
PutMergedBody(existingBody, requestBody) == MergeObject(existingBody, requestBody)

\* the body CreateUpdate sends: requestBody, whether it creates or updates
UpdateResourceBody(isCreate, previousBody, requestBody) == requestBody

UpdateResourcePreRead ==
    /\ cfg.kind = "msgraph_update_resource" /\ op \in {"Create", "Update"}
    /\ pc = "preread"
    /\ \E out \in Outcomes(ServerDocs) :
         /\ log' = Append(log, Entry("preread", "Read", Nil, out))
         /\ IF out.err # NoErr
            THEN Fail("Failed to read existing resource for PUT update")
                 /\ UNCHANGED reqBody
            ELSE /\ reqBody' = PutMergedBody(out.resp, reqBody)
                 /\ pc' = "mutate"
                 /\ UNCHANGED <<diag, tracked>>
    /\ UNCHANGED <<fin, fout, cfg, moveFlag, op, plan, prior, model, ctxDone, polls, waitErr>>

UpdateResourceMutate ==
    /\ cfg.kind = "msgraph_update_resource" /\ op \in {"Create", "Update"}
    /\ pc = "mutate"
    /\ \E out \in Outcomes(Ignored) :
         /\ reqBody' = UpdateResourceBody(op = "Create", prior.body, reqBody)
         /\ log' = Append(log, Entry("mutate", UpdateMethodOf(plan.method), reqBody', out))
         /\ IF out.err # NoErr
            THEN Fail("Failed to create resource")
            ELSE pc' = "read" /\ UNCHANGED <<diag, tracked>>
    /\ UNCHANGED <<fin, fout, cfg, moveFlag, op, plan, prior, model, ctxDone, polls, waitErr>>

UpdateResourceReadBack ==
    /\ cfg.kind = "msgraph_update_resource" /\ op \in {"Create", "Update"}
    /\ pc = "read"
    /\ \E out \in Outcomes(ServerDocs) :
         /\ log' = Append(log, Entry("readback", "Read", Nil, out))
         /\ IF out.err # NoErr
            THEN Fail("Failed to read data source") /\ UNCHANGED model
            ELSE /\ model' = [id |-> LastSegment(cfg.url), output |-> BuildOutput(out.resp)]
                 /\ pc' = "write"
                 /\ UNCHANGED <<diag, tracked>>
    /\ UNCHANGED <<fin, fout, cfg, moveFlag, op, plan, prior, reqBody, ctxDone, polls, waitErr>>

UpdateResourceRead ==
    /\ cfg.kind = "msgraph_update_resource" /\ op = "Read" /\ pc = "read"
    /\ \E out \in Outcomes(ServerDocs) :
         LET called == Append(log, Entry("read", "Read", Nil, out))
         IN IF out.err # NoErr
            THEN IF ReadUntracks(out.err)
                 THEN Remove(called)
                 ELSE ReadFail(called, "Failed to read data source")
            ELSE LET body == IF tracked.body # Nil
                             THEN UpdateObject(tracked.body, out.resp, ReadOption)
                             ELSE tracked.body
                 IN /\ tracked' = [tracked EXCEPT !.body = body,
                                                  !.output = BuildOutput(out.resp)]
                    /\ log' = Append(called, Entry("write", "State.Set", body, Local))
                    /\ pc' = "done"
                    /\ UNCHANGED <<diag, moveFlag>>
    /\ UNCHANGED <<fin, fout, cfg, op, plan, prior, model, reqBody, ctxDone, polls, waitErr>>

\* a Delete that asks the server to delete the resource
UpdateResourceDeleteCalls ==
    /\ cfg.kind = "msgraph_update_resource" /\ op = "Delete" /\ pc = "mutate"
    /\ pc' = "done"
    /\ tracked' = Untracked
    /\ \E out \in Outcomes(Ignored) :
         log' = Append(log, Entry("mutate", "Delete", Nil, out))
    /\ UNCHANGED <<fin, fout, cfg, moveFlag, op, plan, prior, model, reqBody,
                   ctxDone, polls, waitErr, diag>>

\* Delete has an empty body; the framework drops the state when it returns
UpdateResourceDelete ==
    /\ cfg.kind = "msgraph_update_resource" /\ op = "Delete" /\ pc = "mutate"
    /\ pc' = "done"
    /\ tracked' = Untracked
    /\ UNCHANGED <<fin, fout, cfg, moveFlag, op, plan, prior, model, reqBody,
                   ctxDone, polls, waitErr, log, diag>>

-----------------------------------------------------------------------------
(* MSGraphResource.ImportState *)

\* strings.Contains
Contains(s, sub) ==
    \E k \in 1..(Len(s) - Len(sub) + 1) : SubSeq(s, k, k + Len(sub) - 1) = sub

\* strings.ReplaceAll, for a non-empty old
RECURSIVE ReplaceAll(_, _, _)
ReplaceAll(s, old, new) ==
    IF Len(s) < Len(old) THEN s
    ELSE IF SubSeq(s, 1, Len(old)) = old
         THEN new \o ReplaceAll(SubSeq(s, Len(old) + 1, Len(s)), old, new)
         ELSE <<Head(s)>> \o ReplaceAll(Tail(s), old, new)

StartsWith(s, prefix) ==
    /\ Len(s) >= Len(prefix)
    /\ SubSeq(s, 1, Len(prefix)) = prefix

\* strings.TrimSuffix and strings.TrimPrefix
TrimSuffix(s, suffix) ==
    IF HasSuffix(s, suffix) THEN SubSeq(s, 1, Len(s) - Len(suffix)) ELSE s
TrimPrefix(s, prefix) ==
    IF StartsWith(s, prefix) THEN SubSeq(s, Len(prefix) + 1, Len(s)) ELSE s

\* strings.LastIndex(s, "/") and strings.Index(s, c), counted from 0, -1 for none
LastIndex(s) ==
    LET slashes == {k \in 1..Len(s) : s[k] = "/"}
    IN IF slashes = {} THEN -1
       ELSE (CHOOSE k \in slashes : \A j \in slashes : j <= k) - 1
Index(s, c) ==
    LET found == {k \in 1..Len(s) : s[k] = c}
    IN IF found = {} THEN -1
       ELSE (CHOOSE k \in found : \A j \in found : k <= j) - 1

\* url.Parse of a relative reference without "#", "%" or ":": the path is the
\* text before the first "?", the query the text after it
ParsedPath(raw) ==
    IF Index(raw, "?") = -1 THEN raw ELSE SubSeq(raw, 1, Index(raw, "?"))
RawQuery(raw) ==
    IF Index(raw, "?") = -1 THEN <<>> ELSE SubSeq(raw, Index(raw, "?") + 2, Len(raw))

\* Query().Get(key) of a query whose first pair is the only one that can hold key
QueryGet(query, key) ==
    IF StartsWith(query, key \o <<"=">>)
    THEN LET value == SubSeq(query, Len(key) + 2, Len(query))
         IN IF Index(value, "&") = -1 THEN value ELSE SubSeq(value, 1, Index(value, "&"))
    ELSE <<>>

ApiVersionKey == <<"a", "p", "i", "-", "v", "e", "r", "s", "i", "o", "n">>
DefaultApiVersion == <<"v", "1", ".", "0">>
BetaQuery == <<"?">> \o ApiVersionKey \o <<"=", "b", "e", "t", "a">>

\* an import that treats every path as "url/id"
ImportPartsPlain(path) ==
    LET lastIndex == LastIndex(path)
    IN IF lastIndex = -1 THEN [ok |-> FALSE, id |-> <<>>, urlValue |-> <<>>]
       ELSE [ok |-> TRUE,
             id |-> SubSeq(path, lastIndex + 2, Len(path)),
             urlValue |-> TrimPrefix(SubSeq(path, 1, lastIndex), <<"/">>)]

\* the id and the url that ImportState reads out of the path of the import ID
ImportParts(path) ==
    IF HasSuffix(path, RefSuffix)
    THEN LET reqIdWithoutRef == TrimSuffix(path, RefSuffix)
             lastIndex == LastIndex(reqIdWithoutRef)
         IN IF lastIndex = -1 THEN [ok |-> FALSE, id |-> <<>>, urlValue |-> <<>>]
            ELSE [ok |-> TRUE,
                  id |-> SubSeq(reqIdWithoutRef, lastIndex + 2, Len(reqIdWithoutRef)),
                  urlValue |-> TrimPrefix(SubSeq(reqIdWithoutRef, 1, lastIndex), <<"/">>)
                                 \o RefSuffix]
    ELSE LET lastIndex == LastIndex(path)
         IN IF lastIndex = -1 THEN [ok |-> FALSE, id |-> <<>>, urlValue |-> <<>>]
            ELSE [ok |-> TRUE,
                  id |-> SubSeq(path, lastIndex + 2, Len(path)),
                  urlValue |-> TrimPrefix(SubSeq(path, 1, lastIndex), <<"/">>)]

ImportResourceUrl(urlValue, id) ==
    IF HasSuffix(urlValue, RefSuffix)
    THEN TrimSuffix(urlValue, RefSuffix) \o <<"/">> \o id
    ELSE urlValue \o <<"/">> \o id

\* what ImportState leaves in the response: a diagnostic, or the state it set
ImportResponse(ID) ==
    LET parts == ImportParts(ParsedPath(ID))
        given == QueryGet(RawQuery(ID), ApiVersionKey)
    IN IF ~parts.ok
       THEN [summary |-> "Invalid Import ID", state |-> Nil]
       ELSE [summary |-> "",
             state |-> [id |-> parts.id,
                        resource_url |-> ImportResourceUrl(parts.urlValue, parts.id),
                        url |-> parts.urlValue,
                        api_version |-> IF given # <<>> THEN given ELSE DefaultApiVersion,
                        ignore_missing_property |-> TRUE]]

\* the import IDs the acceptance tests build from a tracked resource
ImportIdFunc(url, id) ==
    IF ~Contains(url, RefSuffix) THEN url \o <<"/">> \o id
    ELSE ReplaceAll(url, RefSuffix, <<"/">> \o id \o RefSuffix)
ImportIdFuncWithBetaApiVersion(url, id) == ImportIdFunc(url, id) \o BetaQuery

\* tracked resources to import: collection and relationship urls, a url that
\* holds "/$ref" twice, a url with a "?", ids that are empty, hold a "/" or a
\* "?", or read "$ref"
ImportUrls ==
    {CollectionUrl, ItemUrl, RelationshipUrl,
     <<"g", "/", "m">>, <<"i", "/", "g">>, <<>>,
     <<"g">> \o RefSuffix,
     <<"g">> \o RefSuffix \o <<"/", "m">> \o RefSuffix,
     <<"g", "?", "m">>}
ImportIds ==
    {Id1, Id2, <<"m">>, <<"g">>, <<>>, <<"i", "/", "j">>, <<"i", "?", "j">>,
     <<"$", "r", "e", "f">>}
\* import IDs that were not built from a resource: no "/" at all, or none
\* before the "?"
BareImportIds ==
    {Id1, <<>>, <<"$", "r", "e", "f">>, Id1 \o BetaQuery,
     <<"i", "?", "a", "=", "g", "/", "j">>}
ImportRequests ==
    {[ID |-> ImportIdFunc(u, i), of |-> [url |-> u, id |-> i]] :
        u \in ImportUrls, i \in ImportIds}
    \cup {[ID |-> ImportIdFuncWithBetaApiVersion(u, i), of |-> [url |-> u, id |-> i]] :
            u \in ImportUrls, i \in ImportIds}
    \cup {[ID |-> b, of |-> Nil] : b \in BareImportIds}

ApplyImportState ==
    /\ ~fout.done
    /\ \E req \in ImportRequests :
         /\ fin' = [fn |-> "ImportState", old |-> Str(req.ID), new |-> req.of,
                    option |-> NoOption]
         /\ fout' = [done |-> TRUE, res |-> ImportResponse(req.ID)]
    /\ UNCHANGED handlerVars

-----------------------------------------------------------------------------
(* The framework around the handlers *)

\* MoveState: an azuread resource becomes a tracked msgraph_resource with an
\* id, no body, and the private flag set
MoveState ==
    /\ op = "none"
    /\ cfg.kind = "msgraph_resource"
    /\ ~tracked.present
    /\ moveFlag = ""
    /\ \E url \in {CollectionUrl, RelationshipUrl}, id \in {Id1, Id2} :
         /\ cfg' = [kind |-> "msgraph_resource", url |-> url, ignoreMissing |-> TRUE]
         /\ tracked' = [present |-> TRUE, body |-> Nil, id |-> id, output |-> Nil]
    /\ moveFlag' = "true"
    /\ UNCHANGED <<fin, fout, op, pc, plan, prior, model, reqBody, ctxDone, polls, waitErr,
                   log, diag>>

\* the import IDs the handlers are run with: one per url and id of the model,
\* and one without a path
HandlerImportIds ==
    {ImportIdFunc(url, id) : url \in {CollectionUrl, RelationshipUrl}, id \in {Id1, Id2}}
        \cup {Id1}

\* ImportState: a resource that is not tracked becomes tracked with the id and
\* url of the import ID, ignore_missing_property set and no body; an import ID
\* that is rejected leaves no state
ImportState ==
    /\ op = "none"
    /\ cfg.kind = "msgraph_resource"
    /\ ~tracked.present
    /\ moveFlag = ""
    /\ \E ID \in HandlerImportIds :
         LET response == ImportResponse(ID)
         IN IF response.state = Nil
            THEN UNCHANGED <<cfg, tracked>>
            ELSE /\ cfg' = [kind |-> "msgraph_resource", url |-> response.state.url,
                            ignoreMissing |-> response.state.ignore_missing_property]
                 /\ tracked' = [present |-> TRUE, body |-> Nil, id |-> response.state.id,
                                output |-> Nil]
    /\ UNCHANGED <<fin, fout, moveFlag, op, pc, plan, prior, model, reqBody, ctxDone,
                   polls, waitErr, log, diag>>

\* the handler returns
Return ==
    /\ pc = "done"
    /\ op' = "none"
    /\ pc' = "idle"
    /\ plan' = [body |-> Nil, method |-> "null"]
    /\ prior' = Untracked
    /\ model' = [id |-> <<>>, output |-> Nil]
    /\ reqBody' = Nil
    /\ ctxDone' = FALSE
    /\ polls' = 0
    /\ waitErr' = NoErr
    /\ log' = <<>>
    /\ diag' = ""
    /\ UNCHANGED <<fin, fout, cfg, tracked, moveFlag>>

Init ==
    /\ HelperInit
    /\ cfg \in Configs
    /\ tracked = Untracked
    /\ moveFlag = ""
    /\ Quiet

Next ==
    \/ StartCreate
    \/ StartUpdate
    \/ StartRead
    \/ StartDelete
    \/ DeadlineFires
    \/ ResourceCreateMutate
    \/ ResourceUpdateMutate
    \/ ResourceDeleteMutate
    \/ PollAttempt
    \/ ResourceReadBack
    \/ WriteState
    \/ ResourceRead
    \/ UpdateResourcePreRead
    \/ UpdateResourceMutate
    \/ UpdateResourceReadBack
    \/ UpdateResourceRead
    \/ UpdateResourceDelete
    \/ MoveState
    \/ ImportState
    \/ Return

Spec == Init /\ [][Next]_vars

\* the timer of context.WithTimeout fires, and a wait that can attempt does
Fairness == WF_vars(DeadlineFires) /\ WF_vars(PollAttempt)
SpecLive == Init /\ [][Next]_vars /\ Fairness

\* the handlers stay idle while a helper is checked
HandlerIdle ==
    /\ cfg = [kind |-> "msgraph_resource", url |-> CollectionUrl, ignoreMissing |-> TRUE]
    /\ tracked = Untracked
    /\ moveFlag = ""
    /\ Quiet

InitDiff == HelperInit /\ HandlerIdle
NextDiff == ApplyDiffObject
SpecDiff == InitDiff /\ [][NextDiff]_vars

InitUpdate == HelperInit /\ HandlerIdle
NextUpdate == ApplyUpdateObject
SpecUpdate == InitUpdate /\ [][NextUpdate]_vars

InitMerge == HelperInit /\ HandlerIdle
NextMerge == ApplyMergeObject
SpecMerge == InitMerge /\ [][NextMerge]_vars

InitNotFound == HelperInit /\ HandlerIdle
NextNotFound == ApplyResponseErrorWasNotFound
SpecNotFound == InitNotFound /\ [][NextNotFound]_vars

InitImport == HelperInit /\ HandlerIdle
NextImport == ApplyImportState
SpecImport == InitImport /\ [][NextImport]_vars

-----------------------------------------------------------------------------
(* Properties of DiffObject *)

DiffApplied == fout.done /\ fin.fn = "DiffObject"
IsPatchObject(x) == IsMap(x) /\ DOMAIN x.v # {}

RECURSIVE DiscriminatorsVerbatim(_, _, _)
DiscriminatorsVerbatim(old, new, patch) ==
    (IsMap(old) /\ IsMap(new) /\ IsPatchObject(patch)) =>
        \A key \in DOMAIN new.v :
            /\ HasPrefix(key, ODataPrefix) =>
                 (key \in DOMAIN patch.v /\ patch.v[key] = new.v[key])
            /\ (key \in DOMAIN old.v /\ key \in DOMAIN patch.v) =>
                 DiscriminatorsVerbatim(old.v[key], new.v[key], patch.v[key])

RECURSIVE DiscriminatorsRide(_, _, _)
DiscriminatorsRide(old, new, patch) ==
    (IsMap(old) /\ IsMap(new) /\ IsPatchObject(patch)) =>
        \A key \in DOMAIN new.v :
            /\ HasPrefix(key, ODataPrefix) =>
                 /\ key \in DOMAIN patch.v
                 /\ \/ patch.v[key] = new.v[key]
                    \/ /\ key \in DOMAIN old.v
                       /\ IsMap(old.v[key]) /\ IsMap(new.v[key])
                       /\ old.v[key] # new.v[key]
            /\ (key \in DOMAIN old.v /\ key \in DOMAIN patch.v) =>
                 DiscriminatorsRide(old.v[key], new.v[key], patch.v[key])

StringSuppressed(old, new, option) ==
    /\ IsString(old) /\ IsString(new)
    /\ \/ (option.IgnoreCasing /\ EqualFold(old.v, new.v))
       \/ (option.IgnoreMissingProperty /\ IsMissingText(new.v))

\* old and new differ in nothing but suppressed string leaves
RECURSIVE OnlySuppressedLeaves(_, _, _)
OnlySuppressedLeaves(old, new, option) ==
    \/ old = new
    \/ StringSuppressed(old, new, option)
    \/ /\ IsMap(old) /\ IsMap(new) /\ DOMAIN old.v = DOMAIN new.v
       /\ \A key \in DOMAIN old.v :
            OnlySuppressedLeaves(old.v[key], new.v[key], option)
    \/ /\ IsSlice(old) /\ IsSlice(new) /\ Len(old.v) = Len(new.v)
       /\ \A i \in 1..Len(old.v) :
            OnlySuppressedLeaves(old.v[i], new.v[i], option)

\* new holds something a patch can carry that old does not: new is not null,
\* {} or []; two objects differ so in an added key or in a key of both; two
\* strings differ so unless the policy suppresses the difference
RECURSIVE Carries(_, _, _)
Carries(old, new, option) ==
    /\ old # new
    /\ ~IsEmptyObject(new)
    /\ (IsMap(old) /\ IsMap(new)) =>
          \E key \in DOMAIN new.v :
             \/ key \notin DOMAIN old.v
             \/ Carries(old.v[key], new.v[key], option)
    /\ ~StringSuppressed(old, new, option)

\* C2 as stated: DiffObject(x, x) is nil, and DiffObject(old, new) is not empty
\* whenever old and new differ, except where the only differences are
\* suppressed string leaves.
C2_Original ==
    DiffApplied =>
        /\ (fin.old = fin.new => fout.res = Nil)
        /\ ~OnlySuppressedLeaves(fin.old, fin.new, fin.option) =>
              ~IsEmptyObject(fout.res)

\* C2 as amended: DiffObject(x, x) is nil, and DiffObject(old, new) is not
\* empty exactly when new carries a difference a patch can express: a key
\* removed from old, and a value changed to null, {} or [], leave it empty,
\* as does a string difference the policy suppresses.
C2_EmptyIffNothingCarried ==
    DiffApplied =>
        /\ (fin.old = fin.new => fout.res = Nil)
        /\ IsEmptyObject(fout.res) <=> ~Carries(fin.old, fin.new, fin.option)

\* two objects that differ in a nested field, and a patch that is not empty
C2_Witness ==
    /\ DiffApplied
    /\ IsMap(fin.old) /\ IsMap(fin.new)
    /\ "a" \in DOMAIN fin.old.v \cap DOMAIN fin.new.v
    /\ IsMap(fin.old.v["a"]) /\ IsMap(fin.new.v["a"])
    /\ fin.old.v["a"] # fin.new.v["a"]
    /\ ~IsEmptyObject(fout.res)

-----------------------------------------------------------------------------
(* Properties of the handlers *)

StepsOf(step) == {i \in 1..Len(log) : log[i].step = step}
Succeeded(i) == log[i].err = NoErr
\* the existence check logged at i reported the resource present
FoundAt(i) ==
    /\ log[i].step = "poll"
    /\ ResourceExistence([err |-> log[i].err, resp |-> log[i].resp],
                         model.id, IsRelationship) = "true"
InResourceUpdate == cfg.kind = "msgraph_resource" /\ op = "Update"
InUpdateResourceUpdate == cfg.kind = "msgraph_update_resource" /\ op = "Update"

\* C3: Update with PATCH (also when update_method is unset) sends no mutating
\* request when DiffObject(prior body, planned body) is empty, and otherwise
\* one PATCH whose body is exactly that patch, not the planned body.
C3_PatchOnlyChanges ==
    (InResourceUpdate /\ UpdateMethodOf(plan.method) = "PATCH") =>
        LET patch == DiffObject(prior.body, plan.body, NoOption)
        IN /\ Cardinality(StepsOf("mutate")) <= 1
           /\ IsEmptyObject(patch) => StepsOf("mutate") = {}
           /\ (~IsEmptyObject(patch) /\ pc # "mutate") =>
                 Cardinality(StepsOf("mutate")) = 1
           /\ \A i \in StepsOf("mutate") :
                 /\ log[i].call = "PATCH"
                 /\ log[i].body = patch
                 /\ patch # plan.body => log[i].body # plan.body

\* update_method unset, one field changed, and the PATCH carries that field only
C3_Witness ==
    /\ InResourceUpdate /\ plan.method = "null"
    /\ \E i \in StepsOf("mutate") :
         /\ log[i].call = "PATCH"
         /\ DOMAIN log[i].body.v = {"a"}
         /\ DOMAIN plan.body.v = {"a", "b"}

\* the PUT logged at i carries MergeObject(document read just before, planned body)
PutIsMergeAt(i) ==
    /\ i > 1
    /\ log[i - 1].call = "Read" /\ Succeeded(i - 1)
    /\ log[i].body = MergeObject(log[i - 1].resp, plan.body)

\* C4 as stated: under PUT an update of either resource type first reads the
\* server document and sends MergeObject(server document, desired body).
C4_Original ==
    (op = "Update" /\ UpdateMethodOf(plan.method) = "PUT") =>
        \A i \in StepsOf("mutate") : log[i].call = "PUT" /\ PutIsMergeAt(i)

\* C4 as amended: under PUT an update of msgraph_update_resource first reads
\* the server document and sends MergeObject(server document, desired body) as
\* the whole body; an update of msgraph_resource sends the planned body itself,
\* with no read before it.
C4_PutBodies ==
    (op = "Update" /\ UpdateMethodOf(plan.method) = "PUT") =>
        \A i \in StepsOf("mutate") :
            /\ log[i].call = "PUT"
            /\ IF cfg.kind = "msgraph_update_resource"
               THEN PutIsMergeAt(i)
               ELSE i = 1 /\ log[i].body = plan.body

\* a PUT of msgraph_update_resource that carries a server field the plan lacks
C4_Witness ==
    /\ InUpdateResourceUpdate /\ plan.method = "PUT"
    /\ \E i \in StepsOf("mutate") :
         /\ log[i].call = "PUT"
         /\ "id" \in DOMAIN log[i].body.v
         /\ "id" \notin DOMAIN plan.body.v
         /\ log[i].body.v["a"] = plan.body.v["a"]

\* every read-back follows a successful existence check that follows the mutation
ReadBackAfterPoll ==
    /\ \A i \in StepsOf("readback") :
          \E j \in 1..(i - 1) :
             /\ FoundAt(j)
             /\ \A m \in StepsOf("mutate") : m < j
    /\ diag = "Error" => StepsOf("readback") = {}

\* C5 as stated: in every update, of either resource type and under PUT and
\* PATCH, the read-back is issued only after a poll that follows the mutating
\* step has succeeded, and not at all when the poll fails.
C5_Original == op = "Update" => ReadBackAfterPoll

\* C5 as amended: in every update of msgraph_resource, under PUT and PATCH, the
\* read-back is issued only after a poll that follows the mutating step has
\* succeeded, and not at all when the poll fails; an update of
\* msgraph_update_resource runs no poll, its read-back follows the successful
\* mutating request directly.
C5_PollBeforeReadBack ==
    /\ InResourceUpdate => ReadBackAfterPoll
    /\ InUpdateResourceUpdate =>
          /\ StepsOf("poll") = {}
          /\ \A i \in StepsOf("readback") :
                i > 1 /\ log[i - 1].step = "mutate" /\ Succeeded(i - 1)

\* an update of msgraph_resource that mutated, polled and then read back
C5_Witness ==
    /\ InResourceUpdate
    /\ \E m \in StepsOf("mutate"), j \in StepsOf("poll"), i \in StepsOf("readback") :
         m < j /\ j < i /\ FoundAt(j)

Rank(step) ==
    CASE step = "mutate" -> 1
      [] step = "poll" -> 2
      [] step = "readback" -> 3
      [] step = "write" -> 4

\* C6: Create runs mutate, poll, read-back, write in this order, each step only
\* after the one before it succeeded; for a relationship there is no read-back
\* and the state is written right after a poll that found the id in the
\* listed collection.
C6_CreateOrder ==
    (cfg.kind = "msgraph_resource" /\ op = "Create") =>
        /\ \A i, j \in 1..Len(log) : i < j => Rank(log[i].step) <= Rank(log[j].step)
        /\ \A i \in StepsOf("mutate") : i = 1 /\ log[i].call = "Create"
        /\ \A i \in StepsOf("poll") :
              /\ log[1].step = "mutate" /\ Succeeded(1)
              /\ log[i].call = IF IsRelationship THEN "ListRefIDs" ELSE "Read"
        /\ \A i \in StepsOf("readback") :
              ~IsRelationship /\ FoundAt(i - 1)
        /\ \A i \in StepsOf("write") :
              /\ i = Len(log)
              /\ IF IsRelationship
                 THEN /\ FoundAt(i - 1)
                      /\ \E q \in 1..Len(log[i - 1].resp.v) :
                            log[i - 1].resp.v[q] = Str(model.id)
                 ELSE log[i - 1].step = "readback" /\ Succeeded(i - 1)
        /\ tracked.present <=> StepsOf("write") # {}
        /\ (pc = "done" /\ diag = "") => tracked.present

\* a relationship was created: polled by membership, written with no read-back
C6_Witness ==
    /\ cfg.kind = "msgraph_resource" /\ op = "Create" /\ IsRelationship
    /\ pc = "done" /\ tracked.present
    /\ StepsOf("readback") = {}
    /\ StepsOf("poll") # {}

\* the remote call of Read ended with a not-found class error, or listed a
\* collection the id is not in
ReadFoundNothing ==
    \/ (~Succeeded(1) /\ ResponseErrorWasNotFound(log[1].err))
    \/ /\ log[1].call = "ListRefIDs" /\ Succeeded(1)
       /\ ~\E q \in 1..Len(log[1].resp.v) : log[1].resp.v[q] = Str(model.id)

\* C7: a Read whose remote call fails with a not-found class error, or whose
\* listed collection lacks the id, untracks the resource and reports no error;
\* a Read that fails with another error reports it and leaves the state as it was.
C7_ReadNotFound ==
    (op = "Read" /\ pc = "done") =>
        /\ ReadFoundNothing => (~tracked.present /\ diag = "")
        /\ (~Succeeded(1) /\ ~ResponseErrorWasNotFound(log[1].err)) =>
              (diag # "" /\ tracked = prior)

\* a Read met error code "ResourceNotFound" on a 400 and untracked the resource
C7_Witness ==
    /\ op = "Read" /\ pc = "done"
    /\ log[1].err = ResponseError(400, "ResourceNotFound")
    /\ prior.present /\ ~tracked.present /\ diag = ""

\* C8: a Delete whose delete request returns a not-found class error is a
\* success: no error is reported and the resource ends untracked.
C8_DeleteNotFoundIsSuccess ==
    (cfg.kind = "msgraph_resource" /\ op = "Delete" /\ pc = "done"
        /\ log[1].call = "Delete" /\ ResponseErrorWasNotFound(log[1].err)) =>
        (diag = "" /\ ~tracked.present)

\* C9: msgraph_update_resource sends the full declared body on create and, on
\* every later update, only the fields changed since the body of the prior state.
C9_UpdateSendsChanges ==
    (cfg.kind = "msgraph_update_resource" /\ UpdateMethodOf(plan.method) = "PATCH") =>
        \A i \in StepsOf("mutate") :
            /\ op = "Create" => log[i].body = plan.body
            /\ op = "Update" =>
                  log[i].body = DiffObject(prior.body, plan.body, NoOption)

\* C10: a Create or Update of msgraph_resource whose mutate, poll or read-back
\* step fails (also by the deadline) reports an error and writes nothing: the
\* tracked state is the one it was given.
C10_FailureWritesNothing ==
    (cfg.kind = "msgraph_resource" /\ op \in {"Create", "Update"}) =>
        /\ \A i \in 1..Len(log) :
              (~Succeeded(i) /\ ~(log[i].step = "poll" /\ ResponseErrorWasNotFound(log[i].err))) =>
                 (pc = "done" /\ diag # "")
        /\ (pc = "done" /\ ctxDone /\ StepsOf("write") = {}) => diag # ""
        /\ diag # "" => (pc = "done" /\ tracked = prior /\ StepsOf("write") = {})

\* an Update whose read-back met the deadline: an error, and the prior state kept
C10_Witness ==
    /\ InResourceUpdate /\ pc = "done" /\ ctxDone
    /\ log[Len(log)].step = "readback"
    /\ log[Len(log)].err = DeadlineExceeded
    /\ diag # "" /\ tracked.present /\ tracked = prior

-----------------------------------------------------------------------------
(* Properties of UpdateObject *)

UpdateApplied == fout.done /\ fin.fn = "UpdateObject"

\* C11: for objects old and new and every policy, every key of
\* UpdateObject(old, new, policy) is a key of old.
C11_KeysOfOld ==
    (UpdateApplied /\ IsMap(fin.old) /\ IsMap(fin.new)) =>
        /\ IsMap(fout.res)
        /\ DOMAIN fout.res.v \subseteq DOMAIN fin.old.v

\* new holds a key old lacks, and a key of both whose value it changes
C11_Witness ==
    /\ UpdateApplied /\ IsMap(fin.old) /\ IsMap(fin.new)
    /\ DOMAIN fin.old.v = {"a"} /\ DOMAIN fin.new.v = {"a", "b"}
    /\ fin.new.v["a"] # fin.old.v["a"]
    /\ fout.res = Obj([q \in {"a"} |-> fin.new.v["a"]])

\* C12: UpdateObject(UpdateObject(old, new, p), new, p) equals
\* UpdateObject(old, new, p) for all old, new and p.
C12_Idempotent ==
    UpdateApplied => UpdateObject(fout.res, fin.new, fin.option) = fout.res

\* old and new are arrays that differ, and every element of old has an identifier
IdentifiedArrays ==
    /\ UpdateApplied /\ IsSlice(fin.old) /\ IsSlice(fin.new)
    /\ fin.old # fin.new
    /\ Len(fin.old.v) > 0
    /\ \A i \in 1..Len(fin.old.v) : identifierOfArrayItem(fin.old.v[i]) # <<>>

\* p[i] is the index of the new element the i-th old element is paired with
\* (0 for none): the first unused deep-equal one, otherwise the first unused
\* one with the same identifier
IsPairing(p, oldArr, newArr) ==
    \A i \in 1..Len(oldArr) :
        LET used == {p[q] : q \in 1..(i - 1)}
            free == {j \in 1..Len(newArr) : j \notin used}
            equal == {j \in free : newArr[j] = oldArr[i]}
            named == {j \in free :
                        /\ identifierOfArrayItem(newArr[j]) # <<>>
                        /\ identifierOfArrayItem(newArr[j]) =
                               identifierOfArrayItem(oldArr[i])}
        IN p[i] = IF equal # {} THEN CHOOSE j \in equal : \A q \in equal : j <= q
                  ELSE IF named # {} THEN CHOOSE j \in named : \A q \in named : j <= q
                  ELSE 0

Indices(n) == [i \in 1..n |-> i]
Keep(n, Wanted(_)) == SelectSeq(Indices(n), Wanted)

\* the array the pairing p stands for: the reconciled pairs in old's order,
\* then the new elements no old element took, in new's order
PairedResult(p, oldArr, newArr, option) ==
    LET paired(i) == p[i] # 0
        unused(j) == \A i \in 1..Len(oldArr) : p[i] # j
        kept == Keep(Len(oldArr), paired)
        rest == Keep(Len(newArr), unused)
    IN [q \in 1..Len(kept) |-> UpdateObject(oldArr[kept[q]], newArr[p[kept[q]]], option)]
           \o [q \in 1..Len(rest) |-> newArr[rest[q]]]

\* new holds the identifiers of old, each once
Reordering(oldArr, newArr) ==
    /\ Len(oldArr) = Len(newArr)
    /\ \A i, j \in 1..Len(oldArr) :
          i # j => identifierOfArrayItem(oldArr[i]) # identifierOfArrayItem(oldArr[j])
    /\ \A i \in 1..Len(oldArr) : \E j \in 1..Len(newArr) :
          identifierOfArrayItem(newArr[j]) = identifierOfArrayItem(oldArr[i])

\* C13: for an old array whose elements have identifiers, UpdateObject pairs
\* each old element, in old's order, with an unused new element (a deep-equal
\* one first, otherwise one of the same identifier), emits the reconciled pairs
\* in old's order, drops the old elements without a partner and appends the
\* unused new elements in new's order; a reordering of old comes back in old's
\* order with new's values.
C13_ArrayIdentity ==
    IdentifiedArrays =>
        /\ IsSlice(fout.res)
        /\ \E p \in [1..Len(fin.old.v) -> 0..Len(fin.new.v)] :
              /\ IsPairing(p, fin.old.v, fin.new.v)
              /\ fout.res.v = PairedResult(p, fin.old.v, fin.new.v, fin.option)
        /\ Reordering(fin.old.v, fin.new.v) =>
              /\ Len(fout.res.v) = Len(fin.old.v)
              /\ \A i \in 1..Len(fin.old.v) : \E j \in 1..Len(fin.new.v) :
                    /\ identifierOfArrayItem(fin.new.v[j]) =
                           identifierOfArrayItem(fin.old.v[i])
                    /\ fout.res.v[i] =
                           UpdateObject(fin.old.v[i], fin.new.v[j], fin.option)

\* [{x,1},{y,2}] against [{y,2},{x,9}] gives [{x,9},{y,2}]
C13_Witness ==
    /\ IdentifiedArrays
    /\ fin.old = Arr(<<Item(<<"x">>, 1), Item(<<"y">>, 2)>>)
    /\ fin.new = Arr(<<Item(<<"y">>, 2), Item(<<"x">>, 9)>>)
    /\ fout.res = Arr(<<Item(<<"x">>, 9), Item(<<"y">>, 2)>>)

\* the string is empty, "<redacted>", or one or more asterisks and nothing else
Masked(s) ==
    \/ s = <<>>
    \/ s = <<"<", "r", "e", "d", "a", "c", "t", "e", "d", ">">>
    \/ (Len(s) >= 1 /\ {s[i] : i \in 1..Len(s)} = {"*"})

\* C14: on strings, with IgnoreMissingProperty UpdateObject returns old
\* whenever new is empty, "<redacted>" or only asterisks; with
\* IgnoreMissingProperty and IgnoreCasing both off it returns new whenever new
\* differs from old.
C14_Strings ==
    (UpdateApplied /\ IsString(fin.old) /\ IsString(fin.new)) =>
        /\ (fin.option.IgnoreMissingProperty /\ Masked(fin.new.v)) =>
              fout.res = fin.old
        /\ (~fin.option.IgnoreMissingProperty /\ ~fin.option.IgnoreCasing
                /\ fin.new # fin.old) =>
              fout.res = fin.new

\* old "T" is kept against the empty string under IgnoreMissingProperty
C14_Witness ==
    /\ UpdateApplied /\ fin.option.IgnoreMissingProperty
    /\ fin.old = Str(<<"T">>) /\ fin.new = Str(<<>>)
    /\ fout.res = Str(<<"T">>)

-----------------------------------------------------------------------------
(* Properties of MergeObject *)

MergeApplied == fout.done /\ fin.fn = "MergeObject"

\* every leaf (null, string, number) of n stands at the same path in r
RECURSIVE LeavesKept(_, _)
LeavesKept(n, r) ==
    IF IsMap(n) THEN
        DOMAIN n.v # {} =>
            /\ IsMap(r)
            /\ \A key \in DOMAIN n.v :
                  key \in DOMAIN r.v /\ LeavesKept(n.v[key], r.v[key])
    ELSE IF IsSlice(n) THEN
        Len(n.v) > 0 =>
            /\ IsSlice(r)
            /\ Len(r.v) = Len(n.v)
            /\ \A i \in 1..Len(n.v) : LeavesKept(n.v[i], r.v[i])
    ELSE r = n

\* C15: for every old and every new that is not absent, each leaf of new
\* stands unchanged at the same path in MergeObject(old, new); and
\* MergeObject(old, absent) is absent for every old.
C15_NewWins ==
    MergeApplied =>
        IF fin.new = Nil THEN fout.res = Nil
        ELSE LeavesKept(fin.new, fout.res)

\* new changes a nested leaf of old, and old's other key survives
C15_Witness ==
    /\ MergeApplied
    /\ fin.old = Obj([q \in {"a", "b"} |->
                        IF q = "a" THEN Obj([w \in {"a"} |-> Num(1)]) ELSE Num(1)])
    /\ fin.new = Obj([q \in {"a"} |-> Obj([w \in {"a"} |-> Num(2)])])
    /\ fout.res = Obj([q \in {"a", "b"} |->
                         IF q = "a" THEN Obj([w \in {"a"} |-> Num(2)]) ELSE Num(1)])

\* C26: on two objects MergeObject yields the union of their keys: old's
\* value under a key only old holds, the merge of the two values under a key
\* of both, new's value under a key only new holds; on two arrays of equal
\* length the merges position by position, on arrays of different lengths
\* new; for every other pair of kinds new
C26_MergeByKind ==
    MergeApplied =>
        IF IsMap(fin.old) /\ IsMap(fin.new) THEN
            /\ IsMap(fout.res)
            /\ DOMAIN fout.res.v = DOMAIN fin.old.v \cup DOMAIN fin.new.v
            /\ \A key \in DOMAIN fout.res.v :
                 fout.res.v[key] =
                     IF key \notin DOMAIN fin.new.v THEN fin.old.v[key]
                     ELSE IF key \notin DOMAIN fin.old.v THEN fin.new.v[key]
                     ELSE MergeObject(fin.old.v[key], fin.new.v[key])
        ELSE IF IsSlice(fin.old) /\ IsSlice(fin.new) THEN
            IF Len(fin.old.v) = Len(fin.new.v)
            THEN /\ IsSlice(fout.res)
                 /\ Len(fout.res.v) = Len(fin.new.v)
                 /\ \A i \in 1..Len(fin.new.v) :
                      fout.res.v[i] = MergeObject(fin.old.v[i], fin.new.v[i])
            ELSE fout.res = fin.new
        ELSE fout.res = fin.new

\* each object holds a key the other lacks
C26_Witness ==
    /\ MergeApplied
    /\ fin.old = Obj([q \in {"a"} |-> Arr(<<Num(1)>>)])
    /\ fin.new = Obj([q \in {"b"} |-> Num(2)])
    /\ fout.res = Obj([q \in {"a", "b"} |-> IF q = "a" THEN Arr(<<Num(1)>>) ELSE Num(2)])

-----------------------------------------------------------------------------
(* Properties of the consistency wait *)

InWait == cfg.kind = "msgraph_resource" /\ op \in {"Create", "Update", "Delete"}

\* C16: the wait ends: while the existence check keeps answering "absent" and
\* presence is expected, the wait does not go on forever; once the deadline of
\* the handler has passed it returns the deadline-exceeded error and starts
\* no further attempt.
C16_PollTerminates ==
    /\ (pc = "poll") ~> (pc # "poll")
    /\ [][(pc = "poll" /\ ctxDone) =>
             (pc' = "done" /\ waitErr' = DeadlineExceeded /\ log' = log)]_vars

\* a Create whose existence checks all answered not-found until the deadline
C16_Witness ==
    /\ InWait /\ op = "Create" /\ pc = "done" /\ ctxDone
    /\ waitErr = DeadlineExceeded /\ diag = "Error"
    /\ Cardinality(StepsOf("poll")) >= 2
    /\ \A i \in StepsOf("poll") : log[i].err = ResponseError(404, "")

\* C17: when the existence check of a Delete meets a not-found class error,
\* the wait ends in success at once: no further attempt and no error.
C17_NotFoundIsAbsent ==
    (InWait /\ op = "Delete") =>
        \A i \in StepsOf("poll") :
            (log[i].err.response /\ (log[i].err.status = 404
                                      \/ log[i].err.code = "ResourceNotFound")) =>
                /\ i = Len(log)
                /\ pc = "done" /\ diag = "" /\ waitErr = NoErr
                /\ ~tracked.present

\* the first existence check after the delete request met a 404
C17_Witness ==
    /\ InWait /\ op = "Delete" /\ pc = "done"
    /\ Len(log) = 2 /\ log[1].call = "Delete" /\ Succeeded(1)
    /\ log[2].step = "poll" /\ log[2].err = ResponseError(404, "")
    /\ diag = "" /\ ~tracked.present

\* the wait has failed with the error err
WaitFailedWith(err) ==
    /\ pc = "done" /\ diag = PollSummary /\ waitErr = err
    /\ tracked = prior
    /\ StepsOf("readback") = {} /\ StepsOf("write") = {}

\* C18: an error of the existence check that is not of the not-found class
\* (its own errors for an empty id or url included) ends the wait in failure
\* with that error at once: no further attempt, and no success afterwards.
C18_PredicateErrorFails ==
    /\ [](InWait =>
            \A i \in StepsOf("poll") :
                (~Succeeded(i) /\ ~ResponseErrorWasNotFound(log[i].err)) =>
                    (i = Len(log) /\ WaitFailedWith(log[i].err)))
    /\ [][(InWait /\ pc = "poll" /\ (model.id = <<>> \/ cfg.url = <<>>)) =>
             \/ (ctxDone' /\ pc' = "poll" /\ log' = log)
             \/ /\ log' = log /\ pc' = "done" /\ diag' = PollSummary
                /\ tracked' = prior
                /\ waitErr' \in {DeadlineExceeded,
                                 PlainError("resource ID is empty"),
                                 PlainError("resource URL is empty")}
                /\ ~ctxDone => waitErr' # DeadlineExceeded]_vars

\* an existence check of Update met a 500 and the wait failed with it
C18_Witness ==
    /\ InWait /\ op = "Update"
    /\ log # <<>> /\ log[Len(log)].step = "poll"
    /\ log[Len(log)].err = ResponseError(500, "")
    /\ WaitFailedWith(ResponseError(500, ""))

-----------------------------------------------------------------------------
(* Properties of ResponseErrorWasNotFound *)

NotFoundApplied == fout.done /\ fin.fn = "ResponseErrorWasNotFound"

\* err and the errors it wraps
RECURSIVE ChainOf(_)
ChainOf(err) ==
    {err} \cup (IF err.inner = <<>> THEN {} ELSE ChainOf(err.inner[1]))

\* C19: ResponseErrorWasNotFound(err) is true exactly when err is or wraps a
\* response error with status 404 or error code "ResourceNotFound"; it is
\* false for nil, for errors with no response error in them, and for response
\* errors of any other status and code.
C19_NotFoundClass ==
    NotFoundApplied =>
        (fout.res = Bool(TRUE) <=>
            \E e \in ChainOf(fin.old) :
                e.response /\ (e.status = 404 \/ e.code = "ResourceNotFound"))

\* a wrapped 400 with error code "ResourceNotFound" is of the class
C19_Witness ==
    /\ NotFoundApplied
    /\ fin.old = WrapError("wrapped", ResponseError(400, "ResourceNotFound"))
    /\ fout.res = Bool(TRUE)


-----------------------------------------------------------------------------
(* Properties of ImportState *)

ImportApplied == fout.done /\ fin.fn = "ImportState"
\* the import ID was built from a tracked resource whose url has no leading slash
ImportBuilt ==
    /\ ImportApplied
    /\ fin.new # Nil
    /\ ~StartsWith(fin.new.url, <<"/">>)
ImportRoundTrips ==
    /\ fout.res.summary = ""
    /\ fout.res.state # Nil
    /\ fout.res.state.url = fin.new.url
    /\ fout.res.state.id = fin.new.id
    /\ fout.res.state.resource_url =
           TrimSuffix(fin.new.url, RefSuffix) \o <<"/">> \o fin.new.id
ImportRejected ==
    (ImportApplied /\ ~Contains(ParsedPath(fin.old.v), <<"/">>)) =>
        (fout.res.summary = "Invalid Import ID" /\ fout.res.state = Nil)

\* C20 as stated: the import ID built from any url without a leading slash
\* and any id comes back as that url, that id and the resource url, and an
\* import ID whose path holds no "/" is rejected without state
C20_Original ==
    /\ ImportBuilt => ImportRoundTrips
    /\ ImportRejected

\* an id that is not "$ref" and holds no "/" and no "?", a url that holds no
\* "?" and holds "/$ref" nowhere but at its end
ImportPlain ==
    /\ ~Contains(fin.new.id, <<"/">>)
    /\ ~Contains(fin.new.id, <<"?">>)
    /\ fin.new.id # <<"$", "r", "e", "f">>
    /\ ~Contains(fin.new.url, <<"?">>)
    /\ ~Contains(TrimSuffix(fin.new.url, RefSuffix), RefSuffix)

\* C20: the import ID built from a url without a leading slash that holds
\* "/$ref" nowhere but at its end and from an id without "/" other than
\* "$ref" comes back as that url, that id and the url without its "/$ref"
\* followed by "/" and the id; an import ID whose path holds no "/" is
\* rejected with "Invalid Import ID" and without state
C20_ImportRoundTrip ==
    /\ (ImportBuilt /\ ImportPlain) => ImportRoundTrips
    /\ ImportRejected

\* a relationship import came back as its url, its id and its resource url
C20_Witness ==
    /\ ImportApplied
    /\ fin.old.v = <<"g", "/", "i", "/", "m", "/", "j", "/", "$", "r", "e", "f">>
    /\ fin.new = [url |-> RelationshipUrl, id |-> Id2]
    /\ fout.res.state.url = RelationshipUrl
    /\ fout.res.state.id = Id2
    /\ fout.res.state.resource_url = <<"g", "/", "i", "/", "m", "/", "j">>

-----------------------------------------------------------------------------
(* Properties of MSGraphUpdateResource.Delete *)

InUpdateResourceDelete == cfg.kind = "msgraph_update_resource" /\ op = "Delete"

\* C21: a Delete of msgraph_update_resource issues no request: its log of
\* remote calls stays empty from its start to its return, it reports no
\* error, and its only effect is that the resource is no longer tracked
C21_DeleteIsLocal ==
    /\ [](InUpdateResourceDelete => (log = <<>> /\ diag = ""))
    /\ [][(InUpdateResourceDelete /\ pc = "mutate" /\ pc' = "done") =>
             (log' = <<>> /\ diag' = "" /\ tracked' = Untracked)]_vars

\* a tracked msgraph_update_resource was deleted without a call
C21_Witness ==
    /\ InUpdateResourceDelete
    /\ pc = "done"
    /\ prior.present /\ ~tracked.present
    /\ log = <<>>

-----------------------------------------------------------------------------
(* Properties of UpdateObject on arrays *)

\* old and new are arrays, old is not empty
ArraysApplied ==
    /\ UpdateApplied /\ IsSlice(fin.old) /\ IsSlice(fin.new)
    /\ Len(fin.old.v) > 0
\* position by position when the lengths are equal, new otherwise
PositionalResult(oldArr, newArr, option) ==
    IF Len(oldArr) # Len(newArr) THEN newArr
    ELSE [i \in 1..Len(oldArr) |-> UpdateObject(oldArr[i], newArr[i], option)]
\* the pairs by equality or identifier in old's order, then what new has left
IdentityResult(oldArr, newArr, option) ==
    LET st == UpdateItems(oldArr, newArr, option, 1, [res |-> <<>>, used |-> {}])
    IN st.res \o UnusedItems(newArr, st.used, 1)
HasIdentifier(item) == identifierOfArrayItem(item) # <<>>

\* C22: for a non-empty old array the result is the positional one when no
\* element of old has an identifier and the identifier-matched one when some
\* element of old has an identifier; two elements without identifier are
\* never the same array item
C22_PathByIdentifiers ==
    ArraysApplied =>
        /\ IF \E i \in 1..Len(fin.old.v) : HasIdentifier(fin.old.v[i])
           THEN fout.res = Arr(IdentityResult(fin.old.v, fin.new.v, fin.option))
           ELSE fout.res = Arr(PositionalResult(fin.old.v, fin.new.v, fin.option))
        /\ \A i \in 1..Len(fin.old.v), j \in 1..Len(fin.new.v) :
             (~HasIdentifier(fin.old.v[i]) /\ ~HasIdentifier(fin.new.v[j])) =>
                 ~areSameArrayItems(fin.old.v[i], fin.new.v[j])

\* f takes every position of the result to the position of new it consumed:
\* the element there, as it is or reconciled with an element of old
Consumes(f, oldArr, newArr, resArr, option) ==
    \A q \in 1..Len(resArr) :
        \/ resArr[q] = newArr[f[q]]
        \/ \E i \in 1..Len(oldArr) :
             resArr[q] = UpdateObject(oldArr[i], newArr[f[q]], option)
OneToOne(n) ==
    {f \in [1..n -> 1..n] : \A p, q \in 1..n : f[p] = f[q] => p = q}

\* C28: for arrays old and new UpdateObject yields an array of new's length;
\* when old's first element has an identifier, the positions of the result
\* and the positions of new correspond one to one, each result element
\* being the new element itself or its reconciliation with an old element
C28_LengthOfNew ==
    (UpdateApplied /\ IsSlice(fin.old) /\ IsSlice(fin.new)) =>
        /\ IsSlice(fout.res)
        /\ Len(fout.res.v) = Len(fin.new.v)
        /\ (Len(fin.old.v) > 0 /\ HasIdentifier(fin.old.v[1])) =>
              \E f \in OneToOne(Len(fin.new.v)) :
                  Consumes(f, fin.old.v, fin.new.v, fout.res.v, fin.option)

\* one element of new is paired with old's element, the other is appended
C28_Witness ==
    /\ UpdateApplied
    /\ fin.old = Arr(<<Item(<<"x">>, 1)>>)
    /\ fin.new = Arr(<<Item(<<"y">>, 2), Item(<<"x">>, 9)>>)
    /\ fout.res = Arr(<<Item(<<"x">>, 9), Item(<<"y">>, 2)>>)

-----------------------------------------------------------------------------
(* Properties of UpdateObject on objects *)

\* null, an empty object, array or string, a numeric zero, or false
IsZero(value) ==
    \/ value = Nil
    \/ value = EmptyMap
    \/ (IsSlice(value) /\ value.v = <<>>)
    \/ (IsString(value) /\ value.v = <<>>)
    \/ (value.k \in {"num", "int"} /\ value.v = 0)
    \/ value = Bool(FALSE)

\* C23: on two objects with IgnoreNullProperty unset, a key of old that new
\* lacks or holds as null keeps old's value when IgnoreMissingProperty is set
\* or old's value is a zero value, and is absent from the result otherwise
C23_MissingKeys ==
    (UpdateApplied /\ IsMap(fin.old) /\ IsMap(fin.new) /\ ~fin.option.IgnoreNullProperty) =>
        \A key \in DOMAIN fin.old.v :
            (key \notin DOMAIN fin.new.v \/ fin.new.v[key] = Nil) =>
                IF fin.option.IgnoreMissingProperty \/ IsZero(fin.old.v[key])
                THEN key \in DOMAIN fout.res.v /\ fout.res.v[key] = fin.old.v[key]
                ELSE key \notin DOMAIN fout.res.v

-----------------------------------------------------------------------------
(* Properties of DiffObject on the keys of a patch *)

\* the levels of a patch: the patch of two objects, and below it the patch
\* under every key both objects hold with different values
RECURSIVE AtEveryLevel(_, _, _, _)
AtEveryLevel(P(_, _, _), old, new, patch) ==
    (IsMap(old) /\ IsMap(new) /\ IsPatchObject(patch)) =>
        /\ P(old.v, new.v, patch.v)
        /\ \A key \in DOMAIN patch.v :
             (key \in DOMAIN old.v /\ key \in DOMAIN new.v /\ old.v[key] # new.v[key]) =>
                 AtEveryLevel(P, old.v[key], new.v[key], patch.v[key])

IsDiscriminator(key) == HasPrefix(key, ODataPrefix)
Unchanged(oldMap, newMap, key) ==
    key \in DOMAIN oldMap /\ key \in DOMAIN newMap /\ oldMap[key] = newMap[key]
SomeOtherKey(oldMap, newMap, patchMap) ==
    \E key \in DOMAIN patchMap : ~IsDiscriminator(key)
UnchangedRideOnly(oldMap, newMap, patchMap) ==
    (\E key \in DOMAIN patchMap : IsDiscriminator(key) /\ Unchanged(oldMap, newMap, key)) =>
        (\E key \in DOMAIN patchMap : ~Unchanged(oldMap, newMap, key))

\* C24 as stated: no object patch of DiffObject, at any level, has
\* discriminator keys only
C24_Original ==
    DiffApplied => AtEveryLevel(SomeOtherKey, fin.old, fin.new, fout.res)

\* C24: no object patch of DiffObject, at any level, consists of unchanged
\* discriminator keys: where the patch holds a discriminator whose value is
\* the one previous holds, it also holds a key that previous lacks or holds
\* with another value
C24_UnchangedNeverAlone ==
    DiffApplied => AtEveryLevel(UnchangedRideOnly, fin.old, fin.new, fout.res)

\* previous holds a discriminator only, desired adds a field beside it: the
\* patch holds the added field and the unchanged discriminator
C24_Witness ==
    /\ DiffApplied
    /\ IsMap(fin.old) /\ IsMap(fin.new) /\ IsPatchObject(fout.res)
    /\ DOMAIN fin.old.v = {"@odata.type"}
    /\ DOMAIN fin.new.v = {"@odata.type", "b"}
    /\ fin.old.v["@odata.type"] = fin.new.v["@odata.type"]
    /\ fout.res = fin.new

KeysOfDesired(oldMap, newMap, patchMap) == DOMAIN patchMap \subseteq DOMAIN newMap
\* desired is previous without some of its keys
OnlyRemoved(old, new) ==
    /\ DOMAIN new.v \subseteq DOMAIN old.v
    /\ DOMAIN new.v # DOMAIN old.v
    /\ \A key \in DOMAIN new.v : new.v[key] = old.v[key]

\* C25: for objects previous and desired, every key of the patch, at every
\* level, is a key of desired; a key only previous holds is not in the patch,
\* and when desired is previous with keys removed the patch is empty
C25_AdditiveOnly ==
    (DiffApplied /\ IsMap(fin.old) /\ IsMap(fin.new)) =>
        /\ fout.res = Nil \/ IsPatchObject(fout.res)
        /\ AtEveryLevel(KeysOfDesired, fin.old, fin.new, fout.res)
        /\ \A key \in DOMAIN fin.old.v \ DOMAIN fin.new.v :
             IsMap(fout.res) => key \notin DOMAIN fout.res.v
        /\ OnlyRemoved(fin.old, fin.new) => fout.res = Nil

\* desired drops a key of previous and changes another: the patch holds the
\* changed key only
C25_Witness ==
    /\ DiffApplied /\ IsMap(fin.old) /\ IsMap(fin.new)
    /\ DOMAIN fin.old.v = {"a", "b"}
    /\ DOMAIN fin.new.v = {"a"}
    /\ fin.old.v["a"] = Num(1) /\ fin.new.v["a"] = Str(<<"T">>)
    /\ fout.res = fin.new

-----------------------------------------------------------------------------
(* Properties of drift *)

IsScalar(value) == value.k \in {"str", "num", "int", "bool"}
InResourceRead == cfg.kind = "msgraph_resource" /\ op = "Read"
\* the document the Read of the running handler received
ReadDocument(called) == called[CHOOSE i \in 1..Len(called) : called[i].step = "read"].resp
\* the PATCH requests of the running handler
Patches == {i \in StepsOf("mutate") : log[i].call = "PATCH"}

\* C27: with ignore_missing_property unset, a Read that finds a non-null value
\* under a key the tracked (declared) body holds a different scalar under
\* leaves the server's value under that key in the tracked body; and a PATCH
\* Update sends, for every key whose declared scalar differs from what the
\* tracked body holds under it, a patch with the declared value under that key
C27_DriftSurfacedAndCorrected ==
    /\ [][(/\ InResourceRead /\ pc = "read" /\ ~IsRelationship /\ ~cfg.ignoreMissing
           /\ IsMap(tracked.body)
           /\ pc' = "done" /\ diag' = "" /\ tracked'.present) =>
             LET doc == ReadDocument(log')
             IN \A key \in DOMAIN tracked.body.v :
                  (/\ IsScalar(tracked.body.v[key])
                   /\ key \in DOMAIN doc.v
                   /\ doc.v[key] # Nil
                   /\ doc.v[key] # tracked.body.v[key]) =>
                      /\ IsMap(tracked'.body)
                      /\ key \in DOMAIN tracked'.body.v
                      /\ tracked'.body.v[key] = doc.v[key]]_vars
    /\ [](( /\ InResourceUpdate /\ UpdateMethodOf(plan.method) = "PATCH"
            /\ pc # "mutate"
            /\ IsMap(plan.body) /\ IsMap(prior.body)) =>
             \A key \in DOMAIN plan.body.v \cap DOMAIN prior.body.v :
                (IsScalar(plan.body.v[key]) /\ prior.body.v[key] # plan.body.v[key]) =>
                    /\ Patches # {}
                    /\ \A i \in Patches :
                         /\ IsMap(log[i].body)
                         /\ key \in DOMAIN log[i].body.v
                         /\ log[i].body.v[key] = plan.body.v[key])

\* a Read has taken the server's "t" into the tracked body and dropped "b";
\* the Update that follows declares "T" again and sends it in its PATCH
C27_Witness ==
    /\ InResourceUpdate /\ UpdateMethodOf(plan.method) = "PATCH"
    /\ ~cfg.ignoreMissing
    /\ prior.body = Obj([q \in {"a"} |-> T2])
    /\ plan.body = Obj([q \in {"a", "b"} |-> IF q = "a" THEN T1 ELSE Num(1)])
    /\ \E i \in Patches : log[i].body.v["a"] = T1

-----------------------------------------------------------------------------
(* Properties of the PATCH of MSGraphResource.Update *)

\* null, an empty object or an empty array
IsNothing(d) == d = Nil \/ d = EmptyMap \/ d = Arr(<<>>)
\* the recursive result for a key both bodies hold
PatchUnder(key) == DiffObject(prior.body.v[key], plan.body.v[key], NoOption)
InPatchUpdate ==
    /\ InResourceUpdate /\ UpdateMethodOf(plan.method) = "PATCH"
    /\ IsMap(prior.body) /\ IsMap(plan.body)
\* desired holds no key previous lacks, and no key whose recursive result
\* is more than nothing
OnlyChangesToNothing ==
    \A key \in DOMAIN plan.body.v :
        key \in DOMAIN prior.body.v /\ IsNothing(PatchUnder(key))

\* C29 as stated: a key of both bodies whose recursive result is null, an
\* empty object or an empty array is in no PATCH of the Update, and when
\* there is no other change the Update sends no PATCH
C29_Original ==
    InPatchUpdate =>
        /\ \A key \in DOMAIN prior.body.v \cap DOMAIN plan.body.v :
             IsNothing(PatchUnder(key)) =>
                 \A i \in Patches : key \notin DOMAIN log[i].body.v
        /\ OnlyChangesToNothing => StepsOf("mutate") = {}

\* C29: a key of both bodies whose recursive result is null, an empty object
\* or an empty array is in no PATCH of the Update, unless it is a
\* discriminator, which every PATCH holds with the planned value; and when
\* there is no other change the Update sends no PATCH
C29_NothingIsLeftOut ==
    InPatchUpdate =>
        /\ \A key \in DOMAIN prior.body.v \cap DOMAIN plan.body.v :
             IsNothing(PatchUnder(key)) =>
                 \A i \in Patches :
                     IF IsDiscriminator(key)
                     THEN /\ key \in DOMAIN log[i].body.v
                          /\ log[i].body.v[key] = plan.body.v[key]
                     ELSE key \notin DOMAIN log[i].body.v
        /\ OnlyChangesToNothing => StepsOf("mutate") = {}

\* the plan changes "a" to an empty object and nothing else: the Update has
\* passed its mutate step without a request
C29_Witness ==
    /\ InPatchUpdate
    /\ prior.body = Obj([q \in {"a", "b"} |-> IF q = "a" THEN T1 ELSE Num(1)])
    /\ plan.body = Obj([q \in {"a", "b"} |-> IF q = "a" THEN EmptyMap ELSE Num(1)])
    /\ pc = "done" /\ diag = ""
    /\ StepsOf("mutate") = {}

-----------------------------------------------------------------------------
(* Properties of the move flag *)

\* a step that ends the Read of msgraph_resource
ReadEnds == InResourceRead /\ pc = "read" /\ pc' = "done"
\* the Read found the resource and wrote state
ReadFound == diag' = "" /\ tracked'.present
\* what the server shows of the resource: the document read, or for a
\* relationship the "@odata.id" body built from the id
ServerView ==
    IF IsRelationship
    THEN Obj([q \in {"@odata.id"} |-> Str(DirectoryObjects \o model.id)])
    ELSE ReadDocument(log')
MovedRead ==
    (ReadEnds /\ ReadFound /\ moveFlag = "true") =>
        (tracked'.body = ServerView /\ moveFlag' = "false")
FlagKept ==
    /\ (ReadEnds /\ ReadFound /\ moveFlag # "true") => moveFlag' = moveFlag
    /\ (ReadEnds /\ ~ReadFound) => moveFlag' = moveFlag

\* C30 as stated: a Read that finds the resource with the flag "true" leaves
\* the server's view as the tracked body and sets the flag to "false"; with
\* the flag not "true" it leaves UpdateObject(tracked body, server's view);
\* a Read that untracks or fails leaves the flag as it is
C30_Original ==
    [][/\ MovedRead
       /\ FlagKept
       /\ (ReadEnds /\ ReadFound /\ moveFlag # "true") =>
             tracked'.body = UpdateObject(tracked.body, ServerView, ReadOption)]_vars

\* C30: a Read that finds the resource with the flag "true" leaves the
\* server's view as the tracked body and sets the flag to "false"; with the
\* flag not "true" it leaves UpdateObject(tracked body, document read) when
\* the resource is no relationship and its tracked body is not null, and the
\* tracked body as it is otherwise; a Read that untracks or fails leaves the
\* flag as it is
C30_MoveFlag ==
    [][/\ MovedRead
       /\ FlagKept
       /\ (ReadEnds /\ ReadFound /\ moveFlag # "true") =>
             tracked'.body =
                 IF IsRelationship \/ tracked.body = Nil THEN tracked.body
                 ELSE UpdateObject(tracked.body, ServerView, ReadOption)]_vars

\* the first Read after MoveState has taken the document read as the body
C30_Witness ==
    /\ InResourceRead /\ pc = "done" /\ ~IsRelationship
    /\ prior.body = Nil
    /\ moveFlag = "false"
    /\ tracked.present
    /\ tracked.body = ReadDocument(log)

====
